---- MODULE Spec2Model ----
(***************************************************************************)
(* Path navigation and type coercion of the reflection library             *)
(* (include/reflection/core.hpp): parse_path_enhanced, parse_path,         *)
(* get_field_index, try_set_field, the custom converters and the recursive *)
(* getters and setters, over one record type assembled from the test       *)
(* fixtures.                                                               *)
(*                                                                         *)
(* A std::string is a sequence of one-character strings.  A record value   *)
(* is the tuple of its field values in declaration order (boost::pfr::get),*)
(* a std::vector is a sequence, an enum is its underlying code and a       *)
(* duration is its count.  A nlohmann::json value is a record tagged k.    *)
(***************************************************************************)
EXTENDS Integers, Sequences, FiniteSets, TLC

RECURSIVE ToLowerStr(_), StrToNat(_), NatToStr(_), SkipSpace(_), DigitRun(_),
          JoinStrs(_, _), SortKeys(_), dump(_)
RECURSIVE DefaultValue(_), serialize_field_stub(_, _),
          get_field_enhanced_recursive(_, _, _, _), get_array_element(_, _, _, _, _),
          set_field_enhanced_recursive(_, _, _, _, _), set_array_element(_, _, _, _, _, _),
          get_field_recursive(_, _, _, _), set_field_recursive(_, _, _, _, _),
          validate_path_recursive(_, _, _), ParseLoop(_, _), SplitDots(_, _, _),
          nlohmann_json(_, _), StripZeros(_), ModTwo32(_)

(***************************************************************************)
(* Characters and strings                                                  *)
(***************************************************************************)
Digits == <<"0", "1", "2", "3", "4", "5", "6", "7", "8", "9">>
Lowers == <<"a", "b", "c", "d", "e", "f", "g", "h", "i", "j", "k", "l", "m",
            "n", "o", "p", "q", "r", "s", "t", "u", "v", "w", "x", "y", "z">>
Uppers == <<"A", "B", "C", "D", "E", "F", "G", "H", "I", "J", "K", "L", "M",
            "N", "O", "P", "Q", "R", "S", "T", "U", "V", "W", "X", "Y", "Z">>

\* The characters of the model in ASCII order (the order std::map<std::string,..>
\* and std::string::operator< use).
Ascii == <<"\t", " ", "\"", "+", ",", "-", ".">> \o Digits \o <<":">> \o Uppers
         \o <<"[", "]", "_">> \o Lowers \o <<"{", "}">>

IndexIn(seq, c) == CHOOSE i \in 1..Len(seq) : seq[i] = c
Has(seq, c) == \E i \in 1..Len(seq) : seq[i] = c

isdigit(c) == Has(Digits, c)
DigitVal(c) == IndexIn(Digits, c) - 1
\* Mutant: capital letters are left as they are.
tolower_none(c) == c
tolower(c) == IF Has(Uppers, c) THEN Lowers[IndexIn(Uppers, c)] ELSE c
ToLowerStr(s) == IF s = <<>> THEN <<>> ELSE <<tolower(Head(s))>> \o ToLowerStr(Tail(s))

\* std::isspace, on the characters of the model.
isspace(c) == c \in {" ", "\t"}

Ord(c) == IndexIn(Ascii, c)
\* std::string::operator<
StrLess(a, b) ==
    \E i \in 1..(Len(a) + 1) :
        /\ \A j \in 1..(i - 1) : j <= Len(b) /\ a[j] = b[j]
        /\ \/ i = Len(a) + 1 /\ Len(b) >= i
           \/ i <= Len(a) /\ i <= Len(b) /\ Ord(a[i]) < Ord(b[i])

StrToNat(ds) == IF ds = <<>> THEN 0
                ELSE 10 * StrToNat(SubSeq(ds, 1, Len(ds) - 1)) + DigitVal(ds[Len(ds)])
NatToStr(n) == IF n < 10 THEN <<Digits[n + 1]>>
               ELSE NatToStr(n \div 10) \o <<Digits[(n % 10) + 1]>>
\* std::to_string(long)
to_string(n) == IF n < 0 THEN <<"-">> \o NatToStr(-n) ELSE NatToStr(n)

SkipSpace(s) == IF s # <<>> /\ isspace(Head(s)) THEN SkipSpace(Tail(s)) ELSE s
DigitRun(s) == IF s # <<>> /\ isdigit(Head(s)) THEN <<Head(s)>> \o DigitRun(Tail(s)) ELSE <<>>

\* The outcome of a call that may throw: ok = FALSE is the exception.
Thrown == [ok |-> FALSE, val |-> 0]
Returned(v) == [ok |-> TRUE, val |-> v]

\* std::stoi / std::stoll (strtol, base 10): leading white space, an optional
\* sign, then the longest run of digits; std::invalid_argument when the run is
\* empty.  What follows the run is ignored.
stoll(str) ==
    LET s == SkipSpace(str)
        neg == s # <<>> /\ Head(s) = "-"
        body == IF s # <<>> /\ Head(s) \in {"-", "+"} THEN Tail(s) ELSE s
        run == DigitRun(body)
    IN IF run = <<>> THEN Thrown
       ELSE Returned(IF neg THEN -StrToNat(run) ELSE StrToNat(run))

\* static_cast<Rep>(std::stod(str)) for an integral Rep: strtod reads an optional
\* sign, digits, and an optional '.' with digits; it needs a digit on one side
\* of the '.'.  The cast drops the fraction (towards zero).
stod_as_rep(str) ==
    LET s == SkipSpace(str)
        neg == s # <<>> /\ Head(s) = "-"
        body == IF s # <<>> /\ Head(s) \in {"-", "+"} THEN Tail(s) ELSE s
        run == DigitRun(body)
        rest == SubSeq(body, Len(run) + 1, Len(body))
        frac == IF rest # <<>> /\ Head(rest) = "." THEN DigitRun(Tail(rest)) ELSE <<>>
    IN IF run = <<>> /\ frac = <<>> THEN Thrown
       ELSE Returned(IF neg THEN -StrToNat(run) ELSE StrToNat(run))

\* A digit run without its leading zeros.
StripZeros(ds) == IF Len(ds) > 1 /\ Head(ds) = "0" THEN StripZeros(Tail(ds)) ELSE ds

\* a <= b for two decimal numbers written without leading zeros.
DigitsLeq(a, b) == Len(a) < Len(b) \/ (Len(a) = Len(b) /\ (a = b \/ StrLess(a, b)))

\* INT_MAX, -INT_MIN, LLONG_MAX and -LLONG_MIN in decimal.
INT_MAX_digits == <<"2", "1", "4", "7", "4", "8", "3", "6", "4", "7">>
INT_MIN_digits == <<"2", "1", "4", "7", "4", "8", "3", "6", "4", "8">>
LLONG_MAX_digits == <<"9", "2", "2", "3", "3", "7", "2", "0", "3", "6", "8", "5", "4", "7",
                      "7", "5", "8", "0", "7">>
LLONG_MIN_digits == <<"9", "2", "2", "3", "3", "7", "2", "0", "3", "6", "8", "5", "4", "7",
                      "7", "5", "8", "0", "8">>

\* ERANGE of strtol / strtoll: the number written by run, negated when neg, lies
\* outside [-min, max].
OutOfRange(neg, run, max, min) == ~DigitsLeq(StripZeros(run), IF neg THEN min ELSE max)

\* A 32-bit pattern as its two 16-bit halves; the decimal number ds modulo 2^32.
AddDigit(u, d) ==
    [lo |-> (u.lo * 10 + d) % 65536,
     hi |-> (u.hi * 10 + ((u.lo * 10 + d) \div 65536)) % 65536]
ModTwo32(ds) ==
    IF ds = <<>> THEN [hi |-> 0, lo |-> 0]
    ELSE AddDigit(ModTwo32(SubSeq(ds, 1, Len(ds) - 1)), DigitVal(ds[Len(ds)]))
Negate32(u) ==
    IF u.lo = 0 THEN [hi |-> (65536 - u.hi) % 65536, lo |-> 0]
    ELSE [hi |-> 65535 - u.hi, lo |-> 65536 - u.lo]
AsInt32(u) ==
    IF u.hi >= 32768 THEN (u.hi - 65536) * 65536 + u.lo ELSE u.hi * 65536 + u.lo

\* static_cast<int>(x) for the 64-bit integer x written by run, negated when neg:
\* x modulo 2^32.
static_cast_int(neg, run) ==
    AsInt32(IF neg THEN Negate32(ModTwo32(run)) ELSE ModTwo32(run))

\* The sign and the digit run strtol reads from str.
NumberRun(str) ==
    [neg |-> SkipSpace(str) # <<>> /\ Head(SkipSpace(str)) = "-",
     run |-> DigitRun(IF SkipSpace(str) # <<>> /\ Head(SkipSpace(str)) \in {"-", "+"}
                      THEN Tail(SkipSpace(str)) ELSE SkipSpace(str))]

\* std::stoi: std::invalid_argument without a digit, std::out_of_range outside
\* int.
stoi_of(r) ==
    IF r.run = <<>> THEN Thrown
    ELSE IF OutOfRange(r.neg, r.run, INT_MAX_digits, INT_MIN_digits) THEN Thrown
    ELSE Returned(static_cast_int(r.neg, r.run))
stoi(str) == stoi_of(NumberRun(str))

\* static_cast<int>(std::stoll(str)): std::out_of_range outside long long, and
\* the low 32 bits of what stoll returns otherwise.
stoll_as_int_of(r) ==
    IF r.run = <<>> THEN Thrown
    ELSE IF OutOfRange(r.neg, r.run, LLONG_MAX_digits, LLONG_MIN_digits) THEN Thrown
    ELSE Returned(static_cast_int(r.neg, r.run))
stoll_as_int(str) == stoll_as_int_of(NumberRun(str))

(***************************************************************************)
(* nlohmann::json values                                                   *)
(***************************************************************************)
JNull == [k |-> "null"]
JBool(b) == [k |-> "bool", b |-> b]
JNum(n) == [k |-> "num", n |-> n]
\* A number_float: the double h / 2.
JReal(h) == [k |-> "real", h |-> h]
\* A number_integer outside int: the 64-bit integer written by digits d, negated
\* when neg.
JBig(neg, d) == [k |-> "big", neg |-> neg, d |-> d]
JStr(s) == [k |-> "str", s |-> s]
JArr(a) == [k |-> "arr", a |-> a]
\* o is a function from the member names to the member values (a std::map).
JObj(o) == [k |-> "obj", o |-> o]

is_string(j) == j.k = "str"
is_number(j) == j.k \in {"num", "real", "big"}
is_boolean(j) == j.k = "bool"
is_array(j) == j.k = "arr"
is_object(j) == j.k = "obj"

JoinStrs(strs, sep) ==
    IF strs = <<>> THEN <<>>
    ELSE IF Len(strs) = 1 THEN strs[1]
    ELSE strs[1] \o sep \o JoinStrs(Tail(strs), sep)

\* The keys of a std::map in iteration order.
SortKeys(S) ==
    IF S = {} THEN <<>>
    ELSE LET m == CHOOSE x \in S : \A y \in S \ {x} : StrLess(x, y)
         IN <<m>> \o SortKeys(S \ {m})

\* Mutant: the elements of an array and the members of an object are left out.
dump_flat(j) ==
    CASE j.k = "null" -> <<"n", "u", "l", "l">>
      [] j.k = "bool" -> IF j.b THEN <<"t", "r", "u", "e">> ELSE <<"f", "a", "l", "s", "e">>
      [] j.k = "num" -> to_string(j.n)
      [] j.k = "real" -> NatToStr((IF j.h < 0 THEN -j.h ELSE j.h) \div 2)
      [] j.k = "big" -> j.d
      [] j.k = "str" -> <<"\"">> \o j.s \o <<"\"">>
      [] j.k = "arr" -> <<"[", "]">>
      [] j.k = "obj" -> <<"{", "}">>

\* nlohmann::json::dump(): the compact text of a value.
dump(j) ==
    CASE j.k = "null" -> <<"n", "u", "l", "l">>
      [] j.k = "bool" -> IF j.b THEN <<"t", "r", "u", "e">> ELSE <<"f", "a", "l", "s", "e">>
      [] j.k = "num" -> to_string(j.n)
      [] j.k = "real" ->
           (IF j.h < 0 THEN <<"-">> ELSE <<>>)
           \o NatToStr((IF j.h < 0 THEN -j.h ELSE j.h) \div 2)
           \o (IF j.h % 2 = 1 THEN <<".", "5">> ELSE <<".", "0">>)
      [] j.k = "big" -> (IF j.neg THEN <<"-">> ELSE <<>>) \o j.d
      [] j.k = "str" -> <<"\"">> \o j.s \o <<"\"">>
      [] j.k = "arr" ->
           <<"[">> \o JoinStrs([i \in 1..Len(j.a) |-> dump(j.a[i])], <<",">>) \o <<"]">>
      [] j.k = "obj" ->
           LET keys == SortKeys(DOMAIN j.o)
           IN <<"{">>
              \o JoinStrs([i \in 1..Len(keys) |->
                             <<"\"">> \o keys[i] \o <<"\"", ":">> \o dump(j.o[keys[i]])],
                          <<",">>)
              \o <<"}">>

(***************************************************************************)
(* Static types: the record types of the test fixtures                     *)
(***************************************************************************)
TString == [kind |-> "string"]
TInt == [kind |-> "int"]
TBool == [kind |-> "bool"]
vector(T) == [kind |-> "vector", elem |-> T]

\* enum class Priority { LOW = 1, MEDIUM = 5, HIGH = 10 } with its REGISTER_ENUM
\* map, in the order of std::map<Priority, std::string>.
Priority ==
    [kind |-> "enum",
     enum_map |-> << [val |-> 1, str |-> <<"l", "o", "w">>],
                     [val |-> 5, str |-> <<"m", "e", "d", "i", "u", "m">>],
                     [val |-> 10, str |-> <<"h", "i", "g", "h">>] >>]

\* std::chrono::minutes: Period = std::ratio<60>.
minutes == [kind |-> "duration", num |-> 60, den |-> 1]

f_name == <<"n", "a", "m", "e">>
f_value == <<"v", "a", "l", "u", "e">>
f_street == <<"s", "t", "r", "e", "e", "t">>
f_city == <<"c", "i", "t", "y">>
f_zip_code == <<"z", "i", "p", "_", "c", "o", "d", "e">>
f_age == <<"a", "g", "e">>
f_address == <<"a", "d", "d", "r", "e", "s", "s">>
f_active == <<"a", "c", "t", "i", "v", "e">>
f_priority == <<"p", "r", "i", "o", "r", "i", "t", "y">>
f_interval == <<"i", "n", "t", "e", "r", "v", "a", "l">>
f_items == <<"i", "t", "e", "m", "s">>

\* struct Item { std::string name; int value; };
Item == [kind |-> "struct", names |-> <<f_name, f_value>>, types |-> <<TString, TInt>>]

\* struct Address { std::string street; std::string city; int zip_code; };
Address == [kind |-> "struct", names |-> <<f_street, f_city, f_zip_code>>,
            types |-> <<TString, TString, TInt>>]

\* struct Person { name; age; address; active; } extended with the converter-typed
\* fields of Config (priority, interval) and the sequence of ItemList (items).
Person ==
    [kind |-> "struct",
     names |-> <<f_name, f_age, f_address, f_active, f_priority, f_interval, f_items>>,
     types |-> <<TString, TInt, Address, TBool, Priority, minutes, vector(Item)>>]

is_vector_v(T) == T.kind = "vector"
is_aggregate_v(T) == T.kind = "struct"
is_arithmetic_v(T) == T.kind \in {"int", "bool"}
is_enum_v(T) == T.kind = "enum"
is_duration(T) == T.kind = "duration"
has_custom_converter(T) == T.kind \in {"enum", "duration"}
tuple_size_v(T) == Len(T.types)

\* T{}: value initialisation.
DefaultValue(T) ==
    CASE T.kind = "string" -> <<>>
      [] T.kind = "int" -> 0
      [] T.kind = "bool" -> FALSE
      [] T.kind = "enum" -> 0
      [] T.kind = "duration" -> 0
      [] T.kind = "vector" -> <<>>
      [] T.kind = "struct" -> [i \in 1..Len(T.types) |-> DefaultValue(T.types[i])]

(***************************************************************************)
(* Custom converters                                                       *)
(***************************************************************************)
\* custom_converter<EnumType>::to_string
enum_to_string(T, value) ==
    IF \E i \in 1..Len(T.enum_map) : T.enum_map[i].val = value
    THEN T.enum_map[CHOOSE i \in 1..Len(T.enum_map) : T.enum_map[i].val = value].str
    ELSE to_string(value)

\* Mutant: a string that is no registered name is refused.
enum_from_string_names(T, str) ==
    LET hits == {i \in 1..Len(T.enum_map) : ToLowerStr(T.enum_map[i].str) = ToLowerStr(str)}
    IN IF hits # {}
       THEN Returned(T.enum_map[CHOOSE i \in hits : \A j \in hits : i <= j].val)
       ELSE Thrown

\* custom_converter<EnumType>::from_string
enum_from_string(T, str) ==
    LET str_lower == ToLowerStr(str)
        hits == {i \in 1..Len(T.enum_map) : ToLowerStr(T.enum_map[i].str) = str_lower}
    IN IF hits # {}
       THEN Returned(T.enum_map[CHOOSE i \in hits : \A j \in hits : i <= j].val)
       ELSE stoi(str)

\* custom_converter<std::chrono::duration<Rep, Period>>::to_string
duration_to_string(T, value) ==
    to_string(value)
    \o (CASE T.num = 1 /\ T.den = 1 -> <<"s">>
          [] T.num = 60 /\ T.den = 1 -> <<"m">>
          [] T.num = 3600 /\ T.den = 1 -> <<"h">>
          [] T.num = 1 /\ T.den = 1000 -> <<"m", "s">>
          [] OTHER -> <<"s">>)

TruncDiv(a, b) == IF a >= 0 THEN a \div b ELSE -((-a) \div b)

\* std::chrono::duration_cast<duration_type>(std::chrono::duration<double,
\* std::ratio<n, d>>(count)): the quotient, truncated into Rep.
duration_cast(T, count, n, d) == TruncDiv(count * n * T.den, d * T.num)

\* erase(0, find_first_not_of(ws)); erase(find_last_not_of(ws) + 1)
Trim(s, ws) ==
    LET keep == {i \in 1..Len(s) : s[i] \notin ws}
    IN IF keep = {} THEN <<>>
       ELSE SubSeq(s, CHOOSE i \in keep : \A j \in keep : i <= j,
                      CHOOSE i \in keep : \A j \in keep : i >= j)

IsNumericChar(c) == isdigit(c) \/ c \in {".", "-", "+"}

u_s == {<<"s">>, <<"s", "e", "c">>, <<"s", "e", "c", "o", "n", "d", "s">>}
u_m == {<<"m">>, <<"m", "i", "n">>, <<"m", "i", "n", "u", "t", "e", "s">>}
u_h == {<<"h">>, <<"h", "o", "u", "r">>, <<"h", "o", "u", "r", "s">>}
u_d == {<<"d">>, <<"d", "a", "y">>, <<"d", "a", "y", "s">>}
u_ms == {<<"m", "s">>,
         <<"m", "i", "l", "l", "i", "s", "e", "c", "o", "n", "d", "s">>}

\* custom_converter<std::chrono::duration<Rep, Period>>::from_string, in three
\* steps: the unit suffix, the split into number and unit, the whole function.
\* The length of the leading run of numeric characters of trimmed.
NumericPrefixLen(trimmed) ==
    LET stops == {i \in 1..Len(trimmed) : ~IsNumericChar(trimmed[i])}
    IN IF stops = {} THEN Len(trimmed)
       ELSE (CHOOSE x \in stops : \A y \in stops : x <= y) - 1

\* Mutant: a suffix that is no unit is ignored.
ConvertUnit_any_suffix(T, count, unit_part) ==
    IF ~count.ok THEN Thrown
    ELSE IF unit_part \in u_s THEN Returned(duration_cast(T, count.val, 1, 1))
    ELSE IF unit_part \in u_m THEN Returned(duration_cast(T, count.val, 60, 1))
    ELSE IF unit_part \in u_h THEN Returned(duration_cast(T, count.val, 3600, 1))
    ELSE IF unit_part \in u_d THEN Returned(duration_cast(T, count.val, 86400, 1))
    ELSE IF unit_part \in u_ms THEN Returned(duration_cast(T, count.val, 1, 1000))
    ELSE Returned(count.val)

ConvertUnit(T, count, unit_part) ==
    IF ~count.ok THEN Thrown
    ELSE IF unit_part \in u_s THEN Returned(duration_cast(T, count.val, 1, 1))
    ELSE IF unit_part \in u_m THEN Returned(duration_cast(T, count.val, 60, 1))
    ELSE IF unit_part \in u_h THEN Returned(duration_cast(T, count.val, 3600, 1))
    ELSE IF unit_part \in u_d THEN Returned(duration_cast(T, count.val, 86400, 1))
    ELSE IF unit_part \in u_ms THEN Returned(duration_cast(T, count.val, 1, 1000))
    ELSE IF unit_part = <<>> THEN Returned(count.val)
    ELSE Thrown

SplitNumberAndUnit(T, trimmed, i) ==
    IF i = 0 THEN Thrown
    ELSE ConvertUnit(T, stod_as_rep(SubSeq(trimmed, 1, i)),
                     Trim(SubSeq(trimmed, i + 1, Len(trimmed)), {" ", "\t"}))

FromTrimmed(T, str, trimmed) ==
    IF str = <<>> \/ trimmed = <<>> THEN Thrown
    ELSE IF \A i \in 1..Len(trimmed) : IsNumericChar(trimmed[i]) THEN stod_as_rep(trimmed)
    ELSE SplitNumberAndUnit(T, trimmed, NumericPrefixLen(trimmed))

duration_from_string(T, str) == FromTrimmed(T, str, Trim(str, {" ", "\t", "\r", "\n"}))

custom_to_string(T, value) ==
    IF is_enum_v(T) THEN enum_to_string(T, value) ELSE duration_to_string(T, value)
custom_from_string(T, str) ==
    IF is_enum_v(T) THEN enum_from_string(T, str) ELSE duration_from_string(T, str)

(***************************************************************************)
(* Path parsing                                                            *)
(***************************************************************************)
\* struct PathPart.  An array_index above 2^63 (std::stoull of "-1") is written
\* as the negative number congruent to it modulo 2^64.
PathPart(name) == [field_name |-> name, has_index |-> FALSE, array_index |-> 0]
PathPartIndex(index) == [field_name |-> <<>>, has_index |-> TRUE, array_index |-> index]
is_array_access(part) == part.has_index

ULLONG_MAX_digits == <<"1", "8", "4", "4", "6", "7", "4", "4", "0", "7", "3", "7", "0", "9",
                       "5", "5", "1", "6", "1", "5">>

\* std::stoull (strtoull, base 10): std::invalid_argument without a digit,
\* std::out_of_range when the digit run is above ULLONG_MAX, a '-' negating the
\* value modulo 2^64.  A value of ten digits or more, an index no container of
\* this model has, is written as -1.
stoull_of(r) ==
    IF r.run = <<>> THEN Thrown
    ELSE IF ~DigitsLeq(StripZeros(r.run), ULLONG_MAX_digits) THEN Thrown
    ELSE IF Len(StripZeros(r.run)) > 9 THEN Returned(-1)
    ELSE Returned(IF r.neg THEN -StrToNat(r.run) ELSE StrToNat(r.run))
stoull(str) == stoull_of(NumberRun(str))

\* index >= container.size() for a std::size_t index.
IndexOutOfBounds(index, size) == index < 0 \/ index >= size

\* The locals of parse_path_enhanced before its loop.
ParseStart == [parts |-> <<>>, current_field |-> <<>>, in_brackets |-> FALSE,
               index_str |-> <<>>]

\* Mutant: '[' does not close the pending field name, which is then appended
\* after the index.
ParseChar_late_field(st, c) ==
    IF c = "[" THEN
        [st EXCEPT !.in_brackets = TRUE, !.index_str = <<>>]
    ELSE IF c = "]" THEN
        [parts |-> IF st.in_brackets /\ st.index_str # <<>> /\ stoull(st.index_str).ok
                   THEN Append(st.parts, PathPartIndex(stoull(st.index_str).val))
                   ELSE st.parts,
         current_field |-> st.current_field, in_brackets |-> FALSE, index_str |-> <<>>]
    ELSE IF c = "." THEN
        IF ~st.in_brackets
        THEN [st EXCEPT !.parts = IF st.current_field # <<>>
                                  THEN Append(st.parts, PathPart(st.current_field))
                                  ELSE st.parts,
                        !.current_field = <<>>]
        ELSE [st EXCEPT !.index_str = Append(st.index_str, c)]
    ELSE IF st.in_brackets
         THEN [st EXCEPT !.index_str = Append(st.index_str, c)]
         ELSE [st EXCEPT !.current_field = Append(st.current_field, c)]

\* Mutant: a ']' outside brackets is taken as a regular character.
ParseChar_stray_bracket(st, c) ==
    IF c = "[" THEN
        [parts |-> IF st.current_field # <<>>
                   THEN Append(st.parts, PathPart(st.current_field)) ELSE st.parts,
         current_field |-> <<>>, in_brackets |-> TRUE, index_str |-> <<>>]
    ELSE IF c = "]" /\ st.in_brackets THEN
        [parts |-> IF st.index_str # <<>> /\ stoull(st.index_str).ok
                   THEN Append(st.parts, PathPartIndex(stoull(st.index_str).val))
                   ELSE st.parts,
         current_field |-> st.current_field, in_brackets |-> FALSE, index_str |-> <<>>]
    ELSE IF c = "." THEN
        IF ~st.in_brackets
        THEN [st EXCEPT !.parts = IF st.current_field # <<>>
                                  THEN Append(st.parts, PathPart(st.current_field))
                                  ELSE st.parts,
                        !.current_field = <<>>]
        ELSE [st EXCEPT !.index_str = Append(st.index_str, c)]
    ELSE IF st.in_brackets
         THEN [st EXCEPT !.index_str = Append(st.index_str, c)]
         ELSE [st EXCEPT !.current_field = Append(st.current_field, c)]

\* One iteration of the loop of parse_path_enhanced, on character c.
ParseChar(st, c) ==
    IF c = "[" THEN
        [parts |-> IF st.current_field # <<>>
                   THEN Append(st.parts, PathPart(st.current_field)) ELSE st.parts,
         current_field |-> <<>>, in_brackets |-> TRUE, index_str |-> <<>>]
    ELSE IF c = "]" THEN
        [parts |-> IF st.in_brackets /\ st.index_str # <<>> /\ stoull(st.index_str).ok
                   THEN Append(st.parts, PathPartIndex(stoull(st.index_str).val))
                   ELSE st.parts,
         current_field |-> st.current_field, in_brackets |-> FALSE, index_str |-> <<>>]
    ELSE IF c = "." THEN
        IF ~st.in_brackets
        THEN [st EXCEPT !.parts = IF st.current_field # <<>>
                                  THEN Append(st.parts, PathPart(st.current_field))
                                  ELSE st.parts,
                        !.current_field = <<>>]
        ELSE [st EXCEPT !.index_str = Append(st.index_str, c)]
    ELSE IF st.in_brackets
         THEN [st EXCEPT !.index_str = Append(st.index_str, c)]
         ELSE [st EXCEPT !.current_field = Append(st.current_field, c)]

\* The statements of parse_path_enhanced after its loop.
ParseEnd(st) ==
    IF st.current_field # <<>> THEN Append(st.parts, PathPart(st.current_field))
    ELSE st.parts

ParseLoop(st, rest) ==
    IF rest = <<>> THEN st ELSE ParseLoop(ParseChar(st, Head(rest)), Tail(rest))

parse_path_enhanced(path) ==
    IF path = <<>> THEN <<>> ELSE ParseEnd(ParseLoop(ParseStart, path))

\* The std::getline loop of parse_path: rest is the unread input, part the
\* characters of the current line, parts the result so far.
SplitDots(rest, part, parts) ==
    IF rest = <<>> THEN (IF part # <<>> THEN Append(parts, part) ELSE parts)
    ELSE IF Head(rest) = "."
         THEN SplitDots(Tail(rest), <<>>, IF part # <<>> THEN Append(parts, part) ELSE parts)
         ELSE SplitDots(Tail(rest), Append(part, Head(rest)), parts)

\* Mutant: the path is split by the parser with array support and the names of
\* its field segments are returned.
parse_path_by_enhanced(path) ==
    LET parts == SelectSeq(parse_path_enhanced(path), LAMBDA part : ~part.has_index)
    IN [i \in 1..Len(parts) |-> parts[i].field_name]

parse_path(path) == SplitDots(path, <<>>, <<>>)

(***************************************************************************)
(* Field resolution                                                        *)
(***************************************************************************)
nullopt == [has |-> FALSE, val |-> JNull]
Some(v) == [has |-> TRUE, val |-> v]

\* boost::pfr::get<I>(obj), I counted from 0.
pfr_get(obj, I) == obj[I + 1]

\* Mutant: a name that is not found resolves to the first field.
get_field_index_first(T, field_name) ==
    LET hits == {i \in 1..Len(T.names) : T.names[i] = field_name}
    IN IF hits = {} THEN [has |-> TRUE, val |-> 0]
       ELSE [has |-> TRUE, val |-> (CHOOSE i \in hits : \A j \in hits : i <= j) - 1]

\* Mutant: the names are compared without regard to letter case.
get_field_index_nocase(T, field_name) ==
    LET hits == {i \in 1..Len(T.names) : ToLowerStr(T.names[i]) = ToLowerStr(field_name)}
    IN IF hits = {} THEN [has |-> FALSE, val |-> 0]
       ELSE [has |-> TRUE, val |-> (CHOOSE i \in hits : \A j \in hits : i <= j) - 1]

get_field_index(T, field_name) ==
    LET hits == {i \in 1..Len(T.names) : T.names[i] = field_name}
    IN IF hits = {} THEN [has |-> FALSE, val |-> 0]
       ELSE [has |-> TRUE, val |-> (CHOOSE i \in hits : \A j \in hits : i <= j) - 1]

(***************************************************************************)
(* Serialization stubs                                                     *)
(***************************************************************************)
\* nlohmann::json(x) for a std::string, an int or a bool.
json_of(T, x) ==
    CASE T.kind = "string" -> JStr(x)
      [] T.kind = "int" -> JNum(x)
      [] T.kind = "bool" -> JBool(x)

serialize_field_stub(T, field) ==
    IF is_arithmetic_v(T) \/ T.kind = "string" THEN json_of(T, field)
    ELSE IF has_custom_converter(T) THEN JStr(custom_to_string(T, field))
    ELSE IF is_vector_v(T)
         THEN JArr([i \in 1..Len(field) |-> serialize_field_stub(T.elem, field[i])])
    ELSE IF tuple_size_v(T) > 0
         THEN JObj([n \in {T.names[i] : i \in 1..Len(T.names)} |->
                      LET i == CHOOSE i \in 1..Len(T.names) : T.names[i] = n
                      IN serialize_field_stub(T.types[i], field[i])])
    ELSE JNull

\* Mutant: a record is serialized without its members.
to_json_stub_null(T, obj) == JNull

to_json_stub(T, obj) == serialize_field_stub(T, obj)

\* j.get<int>() for a number: a double is truncated towards zero, a 64-bit
\* integer keeps its low 32 bits.
get_int(j) ==
    CASE j.k = "num" -> j.n
      [] j.k = "real" -> TruncDiv(j.h, 2)
      [] j.k = "big" -> static_cast_int(j.neg, j.d)

\* static_cast<Rep>(j.get<double>()) for the 64-bit Rep of a duration.  The
\* count of a number outside int is not among the values this model holds.
get_double_as_rep(j) ==
    CASE j.k = "num" -> j.n
      [] j.k = "real" -> TruncDiv(j.h, 2)
      [] j.k = "big" -> IF j.neg THEN -StrToNat(j.d) ELSE StrToNat(j.d)

\* Mutant: a number stored into a duration is taken as seconds.
number_as_seconds(T, j) ==
    IF is_enum_v(T) THEN get_int(j) ELSE duration_cast(T, get_double_as_rep(j), 1, 1)

\* The field a number is converted to by a type with a custom converter.
number_to_custom(T, j) == IF is_enum_v(T) THEN get_int(j) ELSE get_double_as_rep(j)

\* j.get<T>() for an arithmetic type or std::string: type_error when the value
\* has another kind (a boolean converts to an integer).
json_get(T, j) ==
    CASE T.kind = "string" -> IF is_string(j) THEN Returned(j.s) ELSE Thrown
      [] T.kind = "bool" -> IF is_boolean(j) THEN Returned(j.b) ELSE Thrown
      [] T.kind = "int" -> IF is_number(j) THEN Returned(get_int(j))
                           ELSE IF is_boolean(j) THEN Returned(IF j.b THEN 1 ELSE 0)
                           ELSE Thrown

deserialize_field_stub(T, j) ==
    IF is_arithmetic_v(T) \/ T.kind = "string" THEN json_get(T, j)
    ELSE IF has_custom_converter(T) /\ is_string(j) THEN custom_from_string(T, j.s)
    ELSE IF has_custom_converter(T) /\ is_number(j) THEN Returned(number_to_custom(T, j))
    ELSE Returned(DefaultValue(T))

(***************************************************************************)
(* Type coercion                                                           *)
(***************************************************************************)
\* The outcome of try_set_field: its return value and the field after the call.
Assigned(v) == [ret |-> TRUE, field |-> v]
Rejected(field) == [ret |-> FALSE, field |-> field]
\* The assignment inside a try block: r is what the right-hand side evaluated
\* to, or the exception it threw.
\* Mutant: the catch block reports success.
TryAssign_true(r, field) == IF r.ok THEN Assigned(r.val) ELSE Assigned(field)

TryAssign(r, field) == IF r.ok THEN Assigned(r.val) ELSE Rejected(field)

try_set_field(T, field, value) ==
    IF has_custom_converter(T) /\ is_string(value) THEN
        TryAssign(custom_from_string(T, value.s), field)
    ELSE IF has_custom_converter(T) /\ is_number(value)
    THEN Assigned(number_to_custom(T, value))
    ELSE IF T.kind = "string" THEN
        IF is_string(value) THEN Assigned(value.s) ELSE Assigned(dump(value))
    ELSE IF T.kind = "bool" THEN
        IF is_boolean(value) THEN Assigned(value.b)
        ELSE IF is_string(value) THEN
            LET str == ToLowerStr(value.s)
            IN IF str \in {<<"t", "r", "u", "e">>, <<"1">>, <<"y", "e", "s">>}
               THEN Assigned(TRUE)
               ELSE IF str \in {<<"f", "a", "l", "s", "e">>, <<"0">>, <<"n", "o">>}
               THEN Assigned(FALSE)
               ELSE Rejected(field)
        ELSE IF is_number(value) THEN Assigned(get_int(value) # 0)
        ELSE Rejected(field)
    ELSE IF is_arithmetic_v(T) THEN
        IF is_number(value) THEN Assigned(get_int(value))
        ELSE IF is_string(value) THEN
            TryAssign(stoll_as_int(value.s), field)
        ELSE Rejected(field)
    ELSE IF is_vector_v(T) THEN
        IF is_array(value) THEN Assigned(deserialize_field_stub(T, value).val)
        ELSE Rejected(field)
    ELSE IF is_aggregate_v(T) THEN
        IF is_object(value) THEN Assigned(deserialize_field_stub(T, value).val)
        ELSE Rejected(field)
    ELSE TryAssign(deserialize_field_stub(T, value), field)

(***************************************************************************)
(* Getters and setters with array support                                  *)
(***************************************************************************)
\* The value a base case returns for a field with no members to walk.
LeafJson(T, obj) ==
    IF has_custom_converter(T) THEN JStr(custom_to_string(T, obj)) ELSE json_of(T, obj)

get_field_enhanced_at_index(T, obj, target_index, path_parts, depth) ==
    get_field_enhanced_recursive(T.types[target_index + 1], pfr_get(obj, target_index),
                                 path_parts, depth)

get_field_enhanced_recursive(T, obj, path_parts, depth) ==
    IF depth >= Len(path_parts) THEN
        IF is_vector_v(T) THEN Some(serialize_field_stub(T, obj))
        ELSE IF is_aggregate_v(T) THEN Some(to_json_stub(T, obj))
        ELSE Some(LeafJson(T, obj))
    ELSE LET current_part == path_parts[depth + 1]
         IN IF is_array_access(current_part)
            THEN get_array_element(T, obj, current_part.array_index, path_parts, depth + 1)
            ELSE IF ~is_aggregate_v(T) THEN nullopt
            ELSE LET field_index == get_field_index(T, current_part.field_name)
                 IN IF ~field_index.has THEN nullopt
                    ELSE get_field_enhanced_at_index(T, obj, field_index.val,
                                                     path_parts, depth + 1)

\* Mutant: an index on a value that is no sequence reads the value itself.
get_array_element_lenient(T, container, index, path_parts, depth) ==
    IF is_vector_v(T) THEN
        IF IndexOutOfBounds(index, Len(container)) THEN nullopt
        ELSE LET element == container[index + 1]
             IN IF depth >= Len(path_parts) THEN
                    IF is_aggregate_v(T.elem) THEN Some(to_json_stub(T.elem, element))
                    ELSE Some(LeafJson(T.elem, element))
                ELSE get_field_enhanced_recursive(T.elem, element, path_parts, depth)
    ELSE get_field_enhanced_recursive(T, container, path_parts, depth)

get_array_element(T, container, index, path_parts, depth) ==
    IF is_vector_v(T) THEN
        IF IndexOutOfBounds(index, Len(container)) THEN nullopt
        ELSE LET element == container[index + 1]
             IN IF depth >= Len(path_parts) THEN
                    IF is_aggregate_v(T.elem) THEN Some(to_json_stub(T.elem, element))
                    ELSE Some(LeafJson(T.elem, element))
                ELSE get_field_enhanced_recursive(T.elem, element, path_parts, depth)
    ELSE nullopt

\* The outcome of a setter: its return value and the object after the call.
\* The member I of obj is passed by reference: r is the outcome of the call
\* that received it.
StoreField(obj, I, r) == [ret |-> r.ret, obj |-> [obj EXCEPT ![I + 1] = r.field]]
StoreMember(obj, I, r) == [ret |-> r.ret, obj |-> [obj EXCEPT ![I + 1] = r.obj]]

\* Mutant: the field is reset before the coercion is tried.
set_field_at_index_enhanced_reset(T, obj, target_index, value) ==
    StoreField(obj, target_index,
               try_set_field(T.types[target_index + 1],
                             DefaultValue(T.types[target_index + 1]), value))

set_field_at_index_enhanced(T, obj, target_index, value) ==
    StoreField(obj, target_index,
               try_set_field(T.types[target_index + 1], pfr_get(obj, target_index), value))

set_field_at_index_enhanced_recursive(T, obj, target_index, path_parts, value, depth) ==
    StoreMember(obj, target_index,
                set_field_enhanced_recursive(T.types[target_index + 1],
                                             pfr_get(obj, target_index), path_parts, value,
                                             depth))

set_field_enhanced_recursive(T, obj, path_parts, value, depth) ==
    IF depth >= Len(path_parts) THEN [ret |-> FALSE, obj |-> obj]
    ELSE LET current_part == path_parts[depth + 1]
         IN IF is_array_access(current_part)
            THEN set_array_element(T, obj, current_part.array_index, path_parts, value,
                                   depth + 1)
            ELSE IF ~is_aggregate_v(T) THEN [ret |-> FALSE, obj |-> obj]
            ELSE LET field_index == get_field_index(T, current_part.field_name)
                 IN IF ~field_index.has THEN [ret |-> FALSE, obj |-> obj]
                    ELSE IF depth = Len(path_parts) - 1
                    THEN set_field_at_index_enhanced(T, obj, field_index.val, value)
                    ELSE set_field_at_index_enhanced_recursive(T, obj, field_index.val,
                                                               path_parts, value, depth + 1)

\* Mutant: the container is cut after the element that is set.
set_array_element_resize(T, container, index, path_parts, value, depth) ==
    IF is_vector_v(T) THEN
        IF IndexOutOfBounds(index, Len(container)) THEN [ret |-> FALSE, obj |-> container]
        ELSE IF depth >= Len(path_parts) THEN
            StoreField(SubSeq(container, 1, index + 1), index,
                       try_set_field(T.elem, container[index + 1], value))
        ELSE
            StoreMember(SubSeq(container, 1, index + 1), index,
                        set_field_enhanced_recursive(T.elem, container[index + 1],
                                                     path_parts, value, depth))
    ELSE [ret |-> FALSE, obj |-> container]

\* Mutant: the element written is always the first one.
set_array_element_first(T, container, index, path_parts, value, depth) ==
    IF is_vector_v(T) THEN
        IF IndexOutOfBounds(index, Len(container)) THEN [ret |-> FALSE, obj |-> container]
        ELSE IF depth >= Len(path_parts) THEN
            StoreField(container, 0, try_set_field(T.elem, container[1], value))
        ELSE
            StoreMember(container, 0,
                        set_field_enhanced_recursive(T.elem, container[1], path_parts,
                                                     value, depth))
    ELSE [ret |-> FALSE, obj |-> container]

set_array_element(T, container, index, path_parts, value, depth) ==
    IF is_vector_v(T) THEN
        IF IndexOutOfBounds(index, Len(container)) THEN [ret |-> FALSE, obj |-> container]
        ELSE IF depth >= Len(path_parts) THEN
            StoreField(container, index, try_set_field(T.elem, container[index + 1], value))
        ELSE
            StoreMember(container, index,
                        set_field_enhanced_recursive(T.elem, container[index + 1],
                                                     path_parts, value, depth))
    ELSE [ret |-> FALSE, obj |-> container]

(***************************************************************************)
(* Getters and setters, dot notation only                                  *)
(***************************************************************************)
\* nlohmann::json(obj) for a value that is no aggregate and has no converter; the
\* elements of a std::vector of records convert as to_json_stub converts them.
nlohmann_json(T, obj) ==
    IF is_vector_v(T) THEN JArr([i \in 1..Len(obj) |-> nlohmann_json(T.elem, obj[i])])
    ELSE IF is_aggregate_v(T) THEN to_json_stub(T, obj)
    ELSE LeafJson(T, obj)

get_field_at_index(T, obj, target_index, path_parts, depth) ==
    get_field_recursive(T.types[target_index + 1], pfr_get(obj, target_index),
                        path_parts, depth)

get_field_recursive(T, obj, path_parts, depth) ==
    IF depth >= Len(path_parts) THEN
        IF is_aggregate_v(T) THEN Some(to_json_stub(T, obj))
        ELSE IF has_custom_converter(T) THEN Some(JStr(custom_to_string(T, obj)))
        ELSE Some(nlohmann_json(T, obj))
    ELSE IF ~is_aggregate_v(T) THEN nullopt
    ELSE LET field_index == get_field_index(T, path_parts[depth + 1])
         IN IF ~field_index.has THEN nullopt
            ELSE get_field_at_index(T, obj, field_index.val, path_parts, depth + 1)

set_field_at_index(T, obj, target_index, value) ==
    StoreField(obj, target_index,
               try_set_field(T.types[target_index + 1], pfr_get(obj, target_index), value))

set_field_at_index_recursive(T, obj, target_index, path_parts, value, depth) ==
    StoreMember(obj, target_index,
                set_field_recursive(T.types[target_index + 1], pfr_get(obj, target_index),
                                    path_parts, value, depth))

set_field_recursive(T, obj, path_parts, value, depth) ==
    IF depth >= Len(path_parts) THEN [ret |-> FALSE, obj |-> obj]
    ELSE IF ~is_aggregate_v(T) THEN [ret |-> FALSE, obj |-> obj]
    ELSE LET field_index == get_field_index(T, path_parts[depth + 1])
         IN IF ~field_index.has THEN [ret |-> FALSE, obj |-> obj]
            ELSE IF depth = Len(path_parts) - 1
            THEN set_field_at_index(T, obj, field_index.val, value)
            ELSE set_field_at_index_recursive(T, obj, field_index.val, path_parts, value,
                                              depth + 1)

validate_path_at_index(T, target_index, path_parts, depth) ==
    validate_path_recursive(T.types[target_index + 1], path_parts, depth)

\* Mutant: only the segment at depth is looked up.
validate_path_one_level(T, path_parts, depth) ==
    IF depth >= Len(path_parts) THEN TRUE
    ELSE is_aggregate_v(T) /\ get_field_index(T, path_parts[depth + 1]).has

validate_path_recursive(T, path_parts, depth) ==
    IF depth >= Len(path_parts) THEN TRUE
    ELSE IF ~is_aggregate_v(T) THEN FALSE
    ELSE LET field_index == get_field_index(T, path_parts[depth + 1])
         IN IF ~field_index.has THEN FALSE
            ELSE validate_path_at_index(T, field_index.val, path_parts, depth + 1)

(***************************************************************************)
(* Public API                                                              *)
(***************************************************************************)
get_field_enhanced(T, obj, path) ==
    LET path_parts == parse_path_enhanced(path)
    IN IF path_parts = <<>> THEN nullopt
       ELSE get_field_enhanced_recursive(T, obj, path_parts, 0)

set_field_enhanced(T, obj, path, value) ==
    LET path_parts == parse_path_enhanced(path)
    IN IF path_parts = <<>> THEN [ret |-> FALSE, obj |-> obj]
       ELSE set_field_enhanced_recursive(T, obj, path_parts, value, 0)

get_field(T, obj, path) ==
    LET path_parts == parse_path(path)
    IN IF path_parts = <<>> THEN nullopt
       ELSE get_field_recursive(T, obj, path_parts, 0)

set_field(T, obj, path, value) ==
    LET path_parts == parse_path(path)
    IN IF path_parts = <<>> THEN [ret |-> FALSE, obj |-> obj]
       ELSE set_field_recursive(T, obj, path_parts, value, 0)

\* Mutant: the empty path is not rejected.
is_valid_path_unchecked(T, path) == validate_path_recursive(T, parse_path(path), 0)

is_valid_path(T, path) ==
    LET path_parts == parse_path(path)
    IN IF path_parts = <<>> THEN FALSE
       ELSE validate_path_recursive(T, path_parts, 0)

RECURSIVE collect_all_paths(_, _, _), CollectFields(_, _, _, _)

\* Mutant: the field name is appended to the prefix with a '/'.
FullPath_slash(prefix, field_name) ==
    IF prefix = <<>> THEN field_name ELSE prefix \o <<"/">> \o field_name

\* prefix.empty() ? field_name : prefix + "." + field_name
FullPath(prefix, field_name) ==
    IF prefix = <<>> THEN field_name ELSE prefix \o <<".">> \o field_name

\* After paths.push_back(full_path): the paths of a nested struct follow.
CollectNested(FieldType, paths, full_path) ==
    IF is_aggregate_v(FieldType) THEN collect_all_paths(FieldType, paths, full_path)
    ELSE paths

\* Mutant: the fields of a nested struct are not collected.
collect_path_for_field_flat(T, I, paths, prefix) ==
    Append(paths, FullPath(prefix, T.names[I + 1]))

collect_path_for_field(T, I, paths, prefix) ==
    CollectNested(T.types[I + 1], Append(paths, FullPath(prefix, T.names[I + 1])),
                  FullPath(prefix, T.names[I + 1]))

\* (collect_path_for_field<T, I>(paths, prefix), ...) from field I on.
CollectFields(T, I, paths, prefix) ==
    IF I >= tuple_size_v(T) THEN paths
    ELSE CollectFields(T, I + 1, collect_path_for_field(T, I, paths, prefix), prefix)

collect_all_paths(T, paths, prefix) ==
    IF is_aggregate_v(T) THEN CollectFields(T, 0, paths, prefix) ELSE paths

get_all_paths(T) == collect_all_paths(T, <<>>, <<>>)

(***************************************************************************)
(* The caller: one record, and calls of the public API on it               *)
(***************************************************************************)
\* How many calls a behaviour makes.
MaxCalls == 2

\* Person person{"A", 30, {"S", "C", 12}, true, Priority::MEDIUM, 3min,
\*               {{"a", 10}, {"b", 20}, {"c", 30}}}
Fixture ==
    << <<"A">>, 30, << <<"S">>, <<"C">>, 12 >>, TRUE, 5, 3,
       << << <<"a">>, 10 >>, << <<"b">>, 20 >>, << <<"c">>, 30 >> >> >>

Dot(a, b) == a \o <<".">> \o b
At(a, i) == a \o <<"[">> \o to_string(i) \o <<"]">>
f_nope == <<"n", "o", "p", "e">>

\* Paths every operation is called with.
DotPaths ==
    { f_name, f_age, f_active, f_priority, f_interval, f_address, f_items,
      Dot(f_address, f_street), f_nope, Dot(f_address, f_nope), Dot(f_name, f_name),
      Dot(f_items, f_name), <<>>, <<".">>, <<"[", "]">>, At(f_items, 0) }

\* Paths with index segments, for the operations with array support.
IndexPaths ==
    { At(f_items, 1), Dot(At(f_items, 1), f_name), Dot(At(f_items, 1), f_value),
      At(f_items, 3), Dot(At(f_items, 3), f_name), Dot(At(f_items, 1), f_nope),
      At(f_name, 0), At(f_address, 0), <<"[", "0", "]">>, At(At(f_items, 0), 0) }

Paths == DotPaths \cup IndexPaths

ItemObject == JObj([n \in {f_name, f_value} |-> IF n = f_name THEN JStr(<<"X">>) ELSE JNum(7)])
AddressObject ==
    JObj([n \in {f_street, f_city, f_zip_code} |->
            IF n = f_zip_code THEN JNum(7) ELSE JStr(<<"X">>)])

\* Values set is called with.
Values ==
    { JStr(<<"X">>), JStr(<<"7">>), JStr(<<"H", "I", "G", "H">>), JNum(5), JBool(TRUE),
      JNull, JArr(<<ItemObject>>), JArr(<<JNum(5)>>), AddressObject }

VARIABLES
    obj,      \* the caller's record, a Person
    before,   \* obj as it was when the last call was made
    call,     \* the last call: [op, path, value]
    ret,      \* what the last call returned: [ok, val]
    calls,    \* the number of calls made
    input,    \* the string handed to parse_path_enhanced
    pos,      \* how many characters of input its loop has consumed
    st,       \* the locals of parse_path_enhanced
    pc        \* "idle", "loop" or "done"

vars == <<obj, before, call, ret, calls, input, pos, st, pc>>
parseVars == <<input, pos, st, pc>>
callVars == <<obj, before, call, ret, calls>>

NoCall == [op |-> "none", path |-> <<>>, value |-> JNull]

Init ==
    /\ obj \in {DefaultValue(Person), Fixture}
    /\ before = obj
    /\ call = NoCall
    /\ ret = [ok |-> FALSE, val |-> JNull]
    /\ calls = 0
    /\ input = <<>> /\ pos = 0 /\ st = ParseStart /\ pc = "idle"

\* The caller receives the std::optional a getter returns.
GetReturns(r) == ret' = [ok |-> r.has, val |-> r.val]

\* The caller receives the bool a setter returns, and its record is what the
\* setter made of it.
SetReturns(r) == ret' = [ok |-> r.ret, val |-> JNull] /\ obj' = r.obj

GetFieldEnhanced(p) ==
    /\ call.op = "none" /\ calls < MaxCalls
    /\ GetReturns(get_field_enhanced(Person, obj, p))
    /\ call' = [op |-> "get_field_enhanced", path |-> p, value |-> JNull]
    /\ before' = obj /\ obj' = obj /\ calls' = calls + 1
    /\ UNCHANGED parseVars

GetField(p) ==
    /\ call.op = "none" /\ calls < MaxCalls
    /\ GetReturns(get_field(Person, obj, p))
    /\ call' = [op |-> "get_field", path |-> p, value |-> JNull]
    /\ before' = obj /\ obj' = obj /\ calls' = calls + 1
    /\ UNCHANGED parseVars

SetFieldEnhanced(p, v) ==
    /\ call.op = "none" /\ calls < MaxCalls
    /\ SetReturns(set_field_enhanced(Person, obj, p, v))
    /\ call' = [op |-> "set_field_enhanced", path |-> p, value |-> v]
    /\ before' = obj /\ calls' = calls + 1
    /\ UNCHANGED parseVars

SetField(p, v) ==
    /\ call.op = "none" /\ calls < MaxCalls
    /\ SetReturns(set_field(Person, obj, p, v))
    /\ call' = [op |-> "set_field", path |-> p, value |-> v]
    /\ before' = obj /\ calls' = calls + 1
    /\ UNCHANGED parseVars

IsValidPath(p) ==
    /\ call.op = "none" /\ calls < MaxCalls
    /\ ret' = [ok |-> is_valid_path(Person, p), val |-> JNull]
    /\ call' = [op |-> "is_valid_path", path |-> p, value |-> JNull]
    /\ before' = obj /\ obj' = obj /\ calls' = calls + 1
    /\ UNCHANGED parseVars

\* The call has returned: the caller drops the path, the value and the result,
\* which live for one call only, and keeps the record.
Return ==
    /\ call.op # "none"
    /\ call' = NoCall /\ ret' = [ok |-> FALSE, val |-> JNull] /\ before' = obj
    /\ UNCHANGED <<obj, calls>>
    /\ UNCHANGED parseVars

Next ==
    \/ Return
    \/ \E p \in Paths : GetFieldEnhanced(p)
    \/ \E p \in DotPaths : GetField(p)
    \/ \E p \in Paths, v \in Values : SetFieldEnhanced(p, v)
    \/ \E p \in DotPaths, v \in Values : SetField(p, v)
    \/ \E p \in DotPaths : IsValidPath(p)

Spec == Init /\ [][Next]_vars

(***************************************************************************)
(* Reference resolution, for stating the properties                        *)
(***************************************************************************)
IsSet == call.op \in {"set_field", "set_field_enhanced"}
IsGet == call.op \in {"get_field", "get_field_enhanced"}
Enhanced(c) == c.op \in {"get_field_enhanced", "set_field_enhanced"}

\* The segments the last call's own parser makes of its path.
PartsOf(c) ==
    IF Enhanced(c) THEN parse_path_enhanced(c.path)
    ELSE [i \in 1..Len(parse_path(c.path)) |-> PathPart(parse_path(c.path)[i])]

RECURSIVE Walk(_, _, _), Leaves(_, _)

Failed(status) == [status |-> status, type |-> TInt, val |-> 0]

\* Where a segment sequence leads from a value x of type T: the value and type
\* it addresses, or the first reason it addresses nothing.
Walk(T, x, parts) ==
    IF parts = <<>> THEN [status |-> "ok", type |-> T, val |-> x]
    ELSE LET seg == Head(parts)
         IN IF seg.has_index THEN
                IF T.kind # "vector" THEN Failed("kind_mismatch")
                ELSE IF seg.array_index < 0 \/ seg.array_index >= Len(x)
                THEN Failed("out_of_range")
                ELSE Walk(T.elem, x[seg.array_index + 1], Tail(parts))
            ELSE IF T.kind # "struct" THEN Failed("kind_mismatch")
            ELSE IF \A i \in 1..Len(T.names) : T.names[i] # seg.field_name
            THEN Failed("unknown_field")
            ELSE LET i == CHOOSE i \in 1..Len(T.names) : T.names[i] = seg.field_name
                 IN Walk(T.types[i], x[i], Tail(parts))

\* The locations of the scalar values inside a value x of type T.
Leaves(T, x) ==
    IF T.kind = "struct"
    THEN UNION {{<<PathPart(T.names[i])>> \o q : q \in Leaves(T.types[i], x[i])} :
                i \in 1..Len(T.names)}
    ELSE IF T.kind = "vector"
    THEN UNION {{<<PathPartIndex(i - 1)>> \o q : q \in Leaves(T.elem, x[i])} :
                i \in 1..Len(x)}
    ELSE {<<>>}

IsPrefix(p, q) == Len(p) <= Len(q) /\ SubSeq(q, 1, Len(p)) = p

\* The target of the last call, resolved in the record as it was before the call.
Target ==
    IF PartsOf(call) = <<>> THEN Failed("empty") ELSE Walk(Person, before, PartsOf(call))

(***************************************************************************)
(* Properties                                                              *)
(***************************************************************************)
\* C1: a set call that returns false, whatever made it fail, leaves the record
\* equal to the record before the call; also after earlier set calls.
FailedSetLeavesRecordUnchanged == (IsSet /\ ~ret.ok) => obj = before

\* A coercion fails on a record that an earlier call has already changed.
FailedSetWitness ==
    /\ call = [op |-> "set_field_enhanced", path |-> Dot(At(f_items, 1), f_value),
               value |-> JStr(<<"X">>)]
    /\ ~ret.ok
    /\ calls = 2 /\ before \notin {Fixture, DefaultValue(Person)}

\* C2: a successful set changes nothing but the addressed value: every scalar
\* outside the addressed location keeps its place and value, and the sequences
\* the path passes through keep their length.
SuccessfulSetChangesOnlyTarget ==
    (IsSet /\ ret.ok) =>
        LET parts == PartsOf(call)
            Outside(x) == {q \in Leaves(Person, x) : ~IsPrefix(parts, q)}
        IN /\ Outside(obj) = Outside(before)
           /\ \A q \in Outside(before) :
                  Walk(Person, obj, q).val = Walk(Person, before, q).val
           /\ \A n \in 1..(Len(parts) - 1) :
                  LET was == Walk(Person, before, SubSeq(parts, 1, n))
                  IN was.type.kind = "vector" =>
                         Len(Walk(Person, obj, SubSeq(parts, 1, n)).val) = Len(was.val)

\* set(record, "items[1].name", "X") on the three-element sequence.
SuccessfulSetWitness ==
    /\ call = [op |-> "set_field_enhanced", path |-> Dot(At(f_items, 1), f_name),
               value |-> JStr(<<"X">>)]
    /\ ret.ok /\ before = Fixture
    /\ obj[7][2][1] = <<"X">> /\ obj[7][2][2] = 20
    /\ obj[7][1] = before[7][1] /\ obj[7][3] = before[7][3]

\* The target of the last call, resolved in the record as it is after the call.
TargetNow == Walk(Person, obj, PartsOf(call))

\* What get returns for path after set(r0, path, v), when that set returns true.
ReadBack(enhanced, s, path) ==
    IF ~s.ret THEN nullopt
    ELSE IF enhanced THEN get_field_enhanced(Person, s.obj, path)
    ELSE get_field(Person, s.obj, path)

SetThenGet(enhanced, r0, path, v) ==
    ReadBack(enhanced,
             IF enhanced THEN set_field_enhanced(Person, r0, path, v)
             ELSE set_field(Person, r0, path, v),
             path)

\* C3: what get returns for a path without index segments, set at the same path
\* of a default-constructed record of the same type, is accepted and read back.
GetThenSetRoundTrips ==
    (IsGet /\ ret.ok /\ \A i \in 1..Len(PartsOf(call)) : ~PartsOf(call)[i].has_index) =>
        SetThenGet(Enhanced(call), DefaultValue(Person), call.path, ret.val) = Some(ret.val)

\* C4: set on a record-typed target succeeds exactly for an object, and then
\* every field of the target holds the same-named member of the object.
RecordTargetTakesObjectMembers ==
    (IsSet /\ Target.status = "ok" /\ Target.type.kind = "struct") =>
        /\ ret.ok <=> is_object(call.value)
        /\ ret.ok =>
               \A i \in 1..Len(Target.type.names) :
                   Target.type.names[i] \in DOMAIN call.value.o =>
                       TargetNow.val[i] =
                           deserialize_field_stub(Target.type.types[i],
                                                  call.value.o[Target.type.names[i]]).val

\* C5: set on a sequence-typed target fails unless the value is an array, fails
\* when an element does not coerce, and otherwise leaves the sequence with one
\* coerced element for each element of the array.
SequenceTargetTakesArrayElements ==
    (IsSet /\ Target.status = "ok" /\ Target.type.kind = "vector") =>
        LET elem == Target.type.elem
            Coerced(j) == try_set_field(elem, DefaultValue(elem), j)
        IN /\ ~is_array(call.value) => ~ret.ok
           /\ (is_array(call.value)
                  /\ \E i \in 1..Len(call.value.a) : ~Coerced(call.value.a[i]).ret) => ~ret.ok
           /\ (is_array(call.value) /\ ret.ok) =>
                  /\ Len(TargetNow.val) = Len(call.value.a)
                  /\ \A i \in 1..Len(call.value.a) :
                         TargetNow.val[i] = Coerced(call.value.a[i]).field

\* C6: a field with a registered converter refuses a boolean, an array, an
\* object and null, and keeps its value.
ConverterTargetRejectsOtherKinds ==
    (IsSet /\ Target.status = "ok" /\ has_custom_converter(Target.type)
        /\ call.value.k \in {"bool", "arr", "obj", "null"}) =>
        ~ret.ok /\ obj = before

\* C7: a path with an undeclared field name, or an index not below the length
\* of the sequence it indexes, makes get return nothing and set return false.
UnknownFieldOrIndexFails ==
    ((IsGet \/ IsSet) /\ Target.status \in {"unknown_field", "out_of_range"}) => ~ret.ok

\* An index past the end in the middle of a path, on the populated record.
UnknownFieldOrIndexWitness ==
    /\ call.op = "get_field_enhanced" /\ call.path = Dot(At(f_items, 3), f_name)
    /\ before = Fixture /\ Target.status = "out_of_range" /\ ~ret.ok

\* C8: an index applied to a value that is no sequence, or a field name applied
\* to a value that is no record, fails and converts nothing.
KindMismatchFails ==
    ((IsGet \/ IsSet) /\ Target.status = "kind_mismatch") => ~ret.ok /\ obj = before

\* "name[0]": an index on a string field.
KindMismatchWitness ==
    /\ call.op = "get_field_enhanced" /\ call.path = At(f_name, 0)
    /\ before = Fixture /\ Target.status = "kind_mismatch" /\ ~ret.ok

\* C9: every operation rejects a path that has no segments, and leaves the
\* record as it was.
EmptyPathRejected ==
    (call.op # "none"
        /\ (PartsOf(call) = <<>> \/ parse_path_enhanced(call.path) = <<>>)) =>
        ~ret.ok /\ obj = before

\* is_valid_path(".") on a path of dots alone.
EmptyPathWitness ==
    /\ call.op = "is_valid_path" /\ call.path = <<".">> /\ PartsOf(call) = <<>>
    /\ ~ret.ok

(***************************************************************************)
(* parse_path_enhanced, one loop iteration at a time                       *)
(***************************************************************************)
\* The longest path string and the longest segment sequence that are enumerated.
MaxPathLen == 5
MaxSegs == 3

PathChars == {"a", "b", ".", "[", "]", "1"}

f_lists == <<"l", "i", "s", "t", "s">>
\* "lists[1].items[3].value"
NestedPath == Dot(At(f_lists, 1), Dot(At(f_items, 3), f_value))

RECURSIVE Render(_)
\* The path string that names a segment sequence: names joined by '.', an index
\* written in brackets after what precedes it.
Render(segs) ==
    IF segs = <<>> THEN <<>>
    ELSE LET front == SubSeq(segs, 1, Len(segs) - 1)
             last == segs[Len(segs)]
         IN IF last.has_index THEN At(Render(front), last.array_index)
            ELSE IF front = <<>> THEN last.field_name
            ELSE Dot(Render(front), last.field_name)

SegNames == {<<"a">>, <<"b">>, <<"a", "b">>}
SegIndexes == {1, 11}
Segs == {PathPart(n) : n \in SegNames} \cup {PathPartIndex(i) : i \in SegIndexes}
SegLists == UNION {[1..n -> Segs] : n \in 1..MaxSegs}

NestedSegs == <<PathPart(f_lists), PathPartIndex(1), PathPart(f_items), PathPartIndex(3),
                PathPart(f_value)>>

\* Each rendered path with the segment sequence it was rendered from.
Rendered == {<<Render(segs), segs>> : segs \in SegLists \cup {NestedSegs}}

TwentyNines == <<"9", "9", "9", "9", "9", "9", "9", "9", "9", "9", "9", "9", "9", "9", "9", "9", "9", "9", "9", "9">>

\* Paths whose index text std::stoull refuses or cannot hold.
BadIndexPaths ==
    { f_items \o <<"[", "a", "b", "c", "]">>, f_items \o <<"[">> \o TwentyNines \o <<"]">>,
      f_name \o <<"[", "x", "]">>, f_items \o <<"[", "-", "]">> }

ParseInputs ==
    UNION {[1..n -> PathChars] : n \in 0..MaxPathLen} \cup Paths
        \cup {e[1] : e \in Rendered} \cup BadIndexPaths

InitParse ==
    /\ obj = DefaultValue(Person) /\ before = obj /\ call = NoCall
    /\ ret = [ok |-> FALSE, val |-> JNull] /\ calls = 0
    /\ input \in ParseInputs
    /\ pos = 0 /\ st = ParseStart /\ pc = "loop"

\* for (char c : path) { ... }
ParseIterate ==
    /\ pc = "loop" /\ pos < Len(input)
    /\ st' = ParseChar(st, input[pos + 1])
    /\ pos' = pos + 1
    /\ UNCHANGED <<input, pc>>
    /\ UNCHANGED callVars

\* The early return on an empty path, and the return after the loop: st.parts
\* is the vector returned.
ParseReturn ==
    /\ pc = "loop" /\ pos = Len(input)
    /\ st' = [st EXCEPT !.parts = IF input = <<>> THEN <<>> ELSE ParseEnd(st)]
    /\ pc' = "done"
    /\ UNCHANGED <<input, pos>>
    /\ UNCHANGED callVars

NextParse == ParseIterate \/ ParseReturn

SpecParse == InitParse /\ [][NextParse]_vars

\* C10: parse_path_enhanced returns the segments of a path in the order they are
\* written: the names between the delimiters as FieldName segments, each
\* bracketed number as an Index segment with that value after the name before it.
ParsesSegmentsInOrder ==
    pc = "done" => \A e \in Rendered : e[1] = input => st.parts = e[2]

\* "lists[1].items[3].value" has been parsed into its five segments.
ParsesSegmentsWitness ==
    pc = "done" /\ input = NestedPath /\ st.parts = NestedSegs

\* The position of the first '[' of a string, 0 when it has none.
FirstBracket(str) ==
    IF \A i \in 1..Len(str) : str[i] # "[" THEN 0
    ELSE CHOOSE i \in 1..Len(str) : str[i] = "[" /\ \A j \in 1..(i - 1) : str[j] # "["

\* str is a field name followed by one bracket pair: name[content].
IsNameWithBracket(str) ==
    /\ FirstBracket(str) > 1 /\ str[Len(str)] = "]"
    /\ \A i \in 1..Len(str) : str[i] = "[" => i = FirstBracket(str)
    /\ \A i \in 1..Len(str) : str[i] = "]" => i = Len(str)
    /\ \A i \in 1..FirstBracket(str) : str[i] # "."

BracketName(str) == SubSeq(str, 1, FirstBracket(str) - 1)
BracketContent(str) == SubSeq(str, FirstBracket(str) + 1, Len(str) - 1)
AllDigits(str) == \A i \in 1..Len(str) : isdigit(str[i])

\* C11: a bracket pair whose content is empty or is not made of decimal digits
\* alone yields no Index segment: name[content] parses to the one FieldName
\* segment name.
MalformedIndexDropped ==
    (pc = "done" /\ IsNameWithBracket(input)
        /\ (BracketContent(input) = <<>> \/ ~AllDigits(BracketContent(input)))) =>
        st.parts = <<PathPart(BracketName(input))>>

(***************************************************************************)
(* parse_path, and the dot-only operations on the path it was given         *)
(***************************************************************************)
\* The longest string over DotChars that is enumerated.
MaxDotLen == 4

DotChars == {"a", ".", "[", "]"}

DotInputs ==
    UNION {[1..n -> DotChars] : n \in 0..MaxDotLen} \cup DotPaths
        \cup { <<".">> \o f_name, f_name \o <<".">>, Dot(f_address, <<".">> \o f_street),
               <<".">> \o Dot(f_address, f_city) \o <<".">>, Dot(f_items, <<"[", "0", "]">>),
               Dot(f_address, At(f_street, 0)), <<"a", ".", "b", ".", "c", ".", "d">> }

DotValues == {JStr(<<"X">>), JNum(5)}

InitDot ==
    /\ obj \in {DefaultValue(Person), Fixture} /\ before = obj /\ call = NoCall
    /\ ret = [ok |-> FALSE, val |-> JNull] /\ calls = 0
    /\ input \in DotInputs
    /\ pos = 0 /\ st = ParseStart /\ pc = "dot"

\* parse_path(input): st.parts is the vector of strings it returns.
ParsePath ==
    /\ pc = "dot"
    /\ st' = [st EXCEPT !.parts = parse_path(input)]
    /\ pos' = Len(input) /\ pc' = "dot_done"
    /\ UNCHANGED input
    /\ UNCHANGED callVars

NextDot ==
    \/ ParsePath
    \/ pc = "dot_done" /\ Return
    \/ pc = "dot_done" /\ GetField(input)
    \/ pc = "dot_done" /\ \E v \in DotValues : SetField(input, v)
    \/ pc = "dot_done" /\ IsValidPath(input)

SpecDot == InitDot /\ [][NextDot]_vars

RECURSIVE RunsFrom(_, _)
\* Where the run of characters other than '.' that starts at position i ends.
RunEnd(str, i) ==
    CHOOSE j \in i..Len(str) :
        (\A k \in i..j : str[k] # ".") /\ (j = Len(str) \/ str[j + 1] = ".")

\* The maximal runs of characters other than '.' from position i on, in order.
RunsFrom(str, i) ==
    IF i > Len(str) THEN <<>>
    ELSE IF str[i] = "." THEN RunsFrom(str, i + 1)
    ELSE <<SubSeq(str, i, RunEnd(str, i))>> \o RunsFrom(str, RunEnd(str, i) + 1)

HasBracket(str) == \E i \in 1..Len(str) : str[i] \in {"[", "]"}

\* C12: parse_path returns the non-empty pieces between the dots, brackets
\* included, and nothing else; get_field, set_field and is_valid_path therefore
\* fail on a path with a bracket in it.
DotOnlyParsing ==
    pc = "dot_done" =>
        /\ st.parts = RunsFrom(input, 1)
        /\ (call.op # "none" /\ HasBracket(input)) => (~ret.ok /\ obj = before)

\* get_field(person, "items[0]") looks for a field named "items[0]".
DotOnlyParsingWitness ==
    /\ pc = "dot_done" /\ input = At(f_items, 0) /\ st.parts = <<At(f_items, 0)>>
    /\ call.op = "get_field" /\ before = Fixture /\ ~ret.ok

(***************************************************************************)
(* get_field_index on its own                                              *)
(***************************************************************************)
\* The longest string over NameChars that is enumerated.
MaxNameLen == 4

NameChars == {"n", "a", "m", "e", "N", " "}

RecordTypes == {Person, Address, Item}

DeclaredNames == UNION {{T.names[i] : i \in 1..Len(T.names)} : T \in RecordTypes}

Capitalized(str) == <<Uppers[IndexIn(Lowers, str[1])]>> \o Tail(str)

\* The declared names and their near misses: another letter case, surrounding
\* white space, a character less, a character more.
NameInputs ==
    UNION {[1..n -> NameChars] : n \in 0..MaxNameLen} \cup DeclaredNames
        \cup {Capitalized(n) : n \in DeclaredNames}
        \cup {<<" ">> \o n : n \in DeclaredNames} \cup {n \o <<" ">> : n \in DeclaredNames}
        \cup {SubSeq(n, 1, Len(n) - 1) : n \in DeclaredNames}
        \cup {n \o <<"x">> : n \in DeclaredNames}

InitResolve ==
    /\ obj = DefaultValue(Person) /\ before = obj /\ call = NoCall
    /\ ret = [ok |-> FALSE, val |-> JNull] /\ calls = 0
    /\ input \in NameInputs
    /\ pos = 0 /\ st = ParseStart /\ pc = "resolve"

\* get_field_index<T>(input): st holds T and the std::optional returned.
GetFieldIndex(T) ==
    /\ pc = "resolve"
    /\ st' = [type |-> T, index |-> get_field_index(T, input)]
    /\ pc' = "resolved"
    /\ UNCHANGED <<input, pos>>
    /\ UNCHANGED callVars

NextResolve == \E T \in RecordTypes : GetFieldIndex(T)

SpecResolve == InitResolve /\ [][NextResolve]_vars

\* C13: get_field_index<T>(name) returns i exactly when name is, character for
\* character, the declared name of field i of T, and nothing for any other
\* string.
FieldIndexIsExactMatch ==
    pc = "resolved" =>
        /\ \A i \in 1..Len(st.type.names) :
               (st.index.has /\ st.index.val = i - 1) <=> input = st.type.names[i]
        /\ st.index.has => st.index.val \in 0..(Len(st.type.names) - 1)

\* "Name" is not the field name of Person.
FieldIndexWitness ==
    /\ pc = "resolved" /\ st.type = Person /\ input = Capitalized(f_name)
    /\ ~st.index.has

(***************************************************************************)
(* Coercion into the string, int and bool fields of Person                  *)
(***************************************************************************)
TwoPow32 == <<"4", "2", "9", "4", "9", "6", "7", "2", "9", "6">>

\* 0, 1, -1, 5, 0.5, -0.5, 0.0, 1.5, 2^32, -2^32 and 2^32 + 1.
NumberValues ==
    { JNum(0), JNum(1), JNum(-1), JNum(5), JReal(1), JReal(-1), JReal(0), JReal(3),
      JBig(FALSE, TwoPow32), JBig(TRUE, TwoPow32),
      JBig(FALSE, <<"4", "2", "9", "4", "9", "6", "7", "2", "9", "7">>) }

BoolStrings ==
    { JStr(<<"t", "r", "u", "e">>), JStr(<<"T", "R", "U", "E">>),
      JStr(<<"T", "r", "u", "e">>), JStr(<<"1">>), JStr(<<"y", "e", "s">>),
      JStr(<<"Y", "E", "S">>), JStr(<<"f", "a", "l", "s", "e">>),
      JStr(<<"F", "a", "l", "s", "e">>), JStr(<<"0">>), JStr(<<"n", "o">>),
      JStr(<<"N", "o">>), JStr(<<"m", "a", "y", "b", "e">>), JStr(<<>>),
      JStr(<<" ", "t", "r", "u", "e">>), JStr(<<"t", "r", "u", "e", " ">>),
      JStr(<<"2">>), JStr(<<"o", "n">>), JStr(<<"y">>), JStr(<<"1", "0">>) }

IntStrings ==
    { JStr(<<"1", "2", "3">>), JStr(<<"1", "2", "3", ".", "4", "5">>),
      JStr(<<"n", "o", "t", "_", "a", "_", "n", "u", "m", "b", "e", "r">>), JStr(<<>>),
      JStr(<<"-", "5">>), JStr(<<" ", "4", "2">>), JStr(<<"+", "7">>),
      JStr(<<"1", "2", "a", "b", "c">>), JStr(<<"a", "b", "c", "1", "2">>),
      JStr(<<"0", "0", "7">>),
      JStr(<<"4", "2", "9", "4", "9", "6", "7", "2", "9", "7">>),
      JStr(<<"2", "1", "4", "7", "4", "8", "3", "6", "4", "8">>),
      JStr(<<"9", "2", "2", "3", "3", "7", "2", "0", "3", "6", "8", "5", "4", "7", "7", "5", "8", "0", "7">>),
      JStr(<<"9", "2", "2", "3", "3", "7", "2", "0", "3", "6", "8", "5", "4", "7", "7", "5", "8", "0", "8">>),
      JStr(<<"9", "9", "9", "9", "9", "9", "9", "9", "9", "9", "9", "9", "9", "9", "9", "9", "9", "9", "9", "9">>),
      JStr(<<"-", "9", "2", "2", "3", "3", "7", "2", "0", "3", "6", "8", "5", "4", "7", "7", "5", "8", "0", "9">>) }

OneTwoThree == JArr(<<JNum(1), JNum(2), JNum(3)>>)

\* What is stored into name: strings, and values of every other kind.
StringSources ==
    { JStr(<<"X">>), JStr(<<>>), JStr(<<"a", " ", "b">>), JNum(42), JNum(-7), JBool(TRUE),
      JBool(FALSE), JNull, OneTwoThree, JArr(<<>>), ItemObject, JReal(3),
      JBig(FALSE, TwoPow32), JArr(<<JStr(<<"X">>), JNull>>) }

\* The calls of set: a path and the value stored there.
CoerceCalls ==
    ({f_active} \X (BoolStrings \cup NumberValues
                    \cup {JBool(TRUE), JBool(FALSE), JNull, OneTwoThree}))
    \cup ({f_age} \X (IntStrings \cup NumberValues \cup {JBool(TRUE), JNull}))
    \cup ({f_name} \X StringSources)

NextCoerce ==
    \/ Return
    \/ \E c \in CoerceCalls : SetFieldEnhanced(c[1], c[2])
    \/ \E c \in CoerceCalls : SetField(c[1], c[2])

SpecCoerce == Init /\ [][NextCoerce]_vars

\* The capital of a letter; any other character is itself.
Upper(c) == IF Has(Lowers, c) THEN Uppers[IndexIn(Lowers, c)] ELSE c

\* str is word, written in any mix of small and capital letters.
IsWord(str, word) ==
    Len(str) = Len(word) /\ \A i \in 1..Len(word) : str[i] \in {word[i], Upper(word[i])}

TrueWords == {<<"t", "r", "u", "e">>, <<"1">>, <<"y", "e", "s">>}
FalseWords == {<<"f", "a", "l", "s", "e">>, <<"0">>, <<"n", "o">>}

TargetIs(kind) == IsSet /\ Target.status = "ok" /\ Target.type.kind = kind

\* C14: a string stored into a bool field sets it to true for "true", "1" and
\* "yes" and to false for "false", "0" and "no", in any letter case; any other
\* string is refused and the field keeps its value.  A boolean is stored as it is.
BoolFromString ==
    /\ (TargetIs("bool") /\ is_string(call.value)) =>
           IF \E w \in TrueWords : IsWord(call.value.s, w)
           THEN ret.ok /\ TargetNow.val = TRUE
           ELSE IF \E w \in FalseWords : IsWord(call.value.s, w)
           THEN ret.ok /\ TargetNow.val = FALSE
           ELSE ~ret.ok /\ obj = before
    /\ (TargetIs("bool") /\ is_boolean(call.value)) =>
           ret.ok /\ TargetNow.val = call.value.b

\* "YES" turns a false field true.
BoolFromStringWitness ==
    /\ call = [op |-> "set_field_enhanced", path |-> f_active,
               value |-> JStr(<<"Y", "E", "S">>)]
    /\ before = DefaultValue(Person) /\ ret.ok /\ obj[4] = TRUE

IsZero(j) == (j.k = "num" /\ j.n = 0) \/ (j.k = "real" /\ j.h = 0)

\* C15: a number stored into a bool field is accepted, and the field is true
\* exactly when the number is not zero.
BoolFromNumber ==
    (TargetIs("bool") /\ is_number(call.value)) =>
        ret.ok /\ (TargetNow.val <=> ~IsZero(call.value))

\* C16: a string stored into an int field is accepted when it starts with a
\* digit, whatever the length of the digit run, and the field then holds the
\* value of the run; it is refused when it starts with no number.
IntFromString ==
    (TargetIs("int") /\ is_string(call.value)) =>
        LET str == call.value.s
            run == DigitRun(str)
        IN /\ run # <<>> => ret.ok
           /\ (run # <<>> /\ Len(run) <= 9 /\ ret.ok) => TargetNow.val = StrToNat(run)
           /\ (str = <<>> \/ (~isdigit(str[1]) /\ str[1] \notin {" ", "+", "-"})) =>
                  (~ret.ok /\ obj = before)

\* The canonical text of the values of StringSources that are no strings.
CanonicalText ==
    { <<JNum(42), <<"4", "2">> >>, <<JNum(-7), <<"-", "7">> >>,
      <<JBool(TRUE), <<"t", "r", "u", "e">> >>, <<JBool(FALSE), <<"f", "a", "l", "s", "e">> >>,
      <<JNull, <<"n", "u", "l", "l">> >>,
      <<OneTwoThree, <<"[", "1", ",", "2", ",", "3", "]">> >>,
      <<JArr(<<>>), <<"[", "]">> >>,
      <<JReal(3), <<"1", ".", "5">> >>,
      <<JBig(FALSE, TwoPow32), TwoPow32>>,
      <<JArr(<<JStr(<<"X">>), JNull>>),
        <<"[", "\"", "X", "\"", ",", "n", "u", "l", "l", "]">> >>,
      <<ItemObject,
        <<"{", "\"">> \o f_name \o <<"\"", ":", "\"", "X", "\"", ",", "\"">> \o f_value
            \o <<"\"", ":", "7", "}">> >> }

\* C17: storing into a string field never fails: a string is copied, and any
\* other value is stored as its canonical text.
StringFromAnything ==
    TargetIs("string") =>
        /\ ret.ok
        /\ is_string(call.value) => TargetNow.val = call.value.s
        /\ ~is_string(call.value) => \E e \in CanonicalText : e[1] = call.value
        /\ \A e \in CanonicalText : e[1] = call.value => TargetNow.val = e[2]

\* [1,2,3] is stored into name as "[1,2,3]".
StringFromAnythingWitness ==
    /\ call = [op |-> "set_field_enhanced", path |-> f_name, value |-> OneTwoThree]
    /\ before = Fixture /\ ret.ok
    /\ obj[1] = <<"[", "1", ",", "2", ",", "3", "]">>

(***************************************************************************)
(* Coercion into the enum and duration fields of Config                     *)
(***************************************************************************)
\* enum class LogLevel { DEBUG, INFO, WARN, ERROR } with its REGISTER_ENUM map.
LogLevel ==
    [kind |-> "enum",
     enum_map |-> << [val |-> 0, str |-> <<"d", "e", "b", "u", "g">>],
                     [val |-> 1, str |-> <<"i", "n", "f", "o">>],
                     [val |-> 2, str |-> <<"w", "a", "r", "n">>],
                     [val |-> 3, str |-> <<"e", "r", "r", "o", "r">>] >>]

\* std::chrono::seconds: Period = std::ratio<1>.
seconds == [kind |-> "duration", num |-> 1, den |-> 1]

f_level == <<"l", "e", "v", "e", "l">>
f_timeout == <<"t", "i", "m", "e", "o", "u", "t">>

\* struct Config { name; level; timeout; interval; priority; }
Config ==
    [kind |-> "struct",
     names |-> <<f_name, f_level, f_timeout, f_interval, f_priority>>,
     types |-> <<TString, LogLevel, seconds, minutes, Priority>>]

\* config: "test_config", LogLevel::INFO, 30 s, 1 min, Priority::MEDIUM.
ConfigFixture == <<<<"t", "e", "s", "t", "_", "c", "o", "n", "f", "i", "g">>, 1, 30, 1, 5>>

\* The numeric literals of the duration strings, each with twice its value.
DurationLiterals ==
    { [text |-> <<"2">>, halves |-> 4],
      [text |-> <<"1", "2", "0">>, halves |-> 240],
      [text |-> <<"5">>, halves |-> 10],
      [text |-> <<"1", ".", "5">>, halves |-> 3],
      [text |-> <<"0", ".", "5">>, halves |-> 1],
      [text |-> <<"1", "5", "0", "0">>, halves |-> 3000] }

\* The unit suffixes from_string knows, each as a ratio of seconds, and no
\* suffix.
DurationUnits ==
    { [text |-> <<"s">>, num |-> 1, den |-> 1, native |-> FALSE],
      [text |-> <<"s", "e", "c">>, num |-> 1, den |-> 1, native |-> FALSE],
      [text |-> <<"s", "e", "c", "o", "n", "d", "s">>, num |-> 1, den |-> 1, native |-> FALSE],
      [text |-> <<"m">>, num |-> 60, den |-> 1, native |-> FALSE],
      [text |-> <<"m", "i", "n">>, num |-> 60, den |-> 1, native |-> FALSE],
      [text |-> <<"m", "i", "n", "u", "t", "e", "s">>, num |-> 60, den |-> 1, native |-> FALSE],
      [text |-> <<"h">>, num |-> 3600, den |-> 1, native |-> FALSE],
      [text |-> <<"h", "o", "u", "r">>, num |-> 3600, den |-> 1, native |-> FALSE],
      [text |-> <<"h", "o", "u", "r", "s">>, num |-> 3600, den |-> 1, native |-> FALSE],
      [text |-> <<"d">>, num |-> 86400, den |-> 1, native |-> FALSE],
      [text |-> <<"d", "a", "y">>, num |-> 86400, den |-> 1, native |-> FALSE],
      [text |-> <<"d", "a", "y", "s">>, num |-> 86400, den |-> 1, native |-> FALSE],
      [text |-> <<"m", "s">>, num |-> 1, den |-> 1000, native |-> FALSE],
      [text |-> <<"m", "i", "l", "l", "i", "s", "e", "c", "o", "n", "d", "s">>, num |-> 1, den |-> 1000, native |-> FALSE],
      [text |-> <<>>, num |-> 1, den |-> 1, native |-> TRUE] }

Paddings == {<<>>, <<" ">>}

DurationText(pad, lit, unit) == pad \o lit.text \o unit.text \o pad

DurationStrings ==
    {JStr(DurationText(pad, lit, unit)) :
        pad \in Paddings, lit \in DurationLiterals, unit \in DurationUnits}
    \cup { JStr(<<"a", "b", "c">>), JStr(<<>>), JStr(<<"5", "x">>), JStr(<<"m", "5">>),
           JStr(<<" ">>), JStr(<<"5", " ", "m">>),
           JStr(<<"1", ".", "5", ".", "2", "m">>), JStr(<<"-", "3", "m">>),
           JStr(<<"5", "S">>), JStr(<<"5", "m", "i", "n", "s">>), JStr(<<" ", "\t">>),
           JStr(<<" ", "s", "3", "0">>) }

EnumStrings ==
    { JStr(<<"H", "I", "G", "H">>), JStr(<<"h", "i", "g", "h">>),
      JStr(<<"L", "o", "w">>), JStr(<<"m", "e", "d", "i", "u", "m">>),
      JStr(<<"i", "n", "v", "a", "l", "i", "d">>), JStr(<<"5">>), JStr(<<"7">>),
      JStr(<<"-", "1">>), JStr(<<" ", "l", "o", "w">>), JStr(<<>>),
      JStr(<<"1", "0", "x">>), JStr(<<"x", "1", "0">>),
      JStr(<<"2", "1", "4", "7", "4", "8", "3", "6", "4", "8">>),
      JStr(<<"d", "e", "b", "u", "g">>), JStr(<<"E", "r", "r", "o", "r">>),
      JStr(<<"3">>) }

\* 0, 1, 3, 5, 7, 10, 60, -1, 2.5 and -0.5.
CodeValues ==
    { JNum(0), JNum(1), JNum(3), JNum(5), JNum(7), JNum(10), JNum(60), JNum(-1), JReal(5),
      JReal(-1) }

ConfigCalls ==
    ({f_level, f_priority} \X (EnumStrings \cup CodeValues \cup {JBig(FALSE, TwoPow32)}))
    \cup ({f_timeout, f_interval} \X (DurationStrings \cup CodeValues))

\* The calls made on one Config.
MaxConfigCalls == 1

InitConfig ==
    /\ obj \in {DefaultValue(Config), ConfigFixture} /\ before = obj /\ call = NoCall
    /\ ret = [ok |-> FALSE, val |-> JNull] /\ calls = 0
    /\ input = <<>> /\ pos = 0 /\ st = ParseStart /\ pc = "idle"

\* set_field_enhanced(config, p, v) and set_field(config, p, v).
SetConfigFieldEnhanced(p, v) ==
    /\ call.op = "none" /\ calls < MaxConfigCalls
    /\ SetReturns(set_field_enhanced(Config, obj, p, v))
    /\ call' = [op |-> "set_field_enhanced", path |-> p, value |-> v]
    /\ before' = obj /\ calls' = calls + 1
    /\ UNCHANGED parseVars

SetConfigField(p, v) ==
    /\ call.op = "none" /\ calls < MaxConfigCalls
    /\ SetReturns(set_field(Config, obj, p, v))
    /\ call' = [op |-> "set_field", path |-> p, value |-> v]
    /\ before' = obj /\ calls' = calls + 1
    /\ UNCHANGED parseVars

NextConfig ==
    \/ Return
    \/ \E c \in ConfigCalls : SetConfigFieldEnhanced(c[1], c[2])
    \/ \E c \in ConfigCalls : SetConfigField(c[1], c[2])

SpecConfig == InitConfig /\ [][NextConfig]_vars

\* The target of the last call on a Config, before and after the call.
ConfigTarget == Walk(Config, before, PartsOf(call))
ConfigTargetNow == Walk(Config, obj, PartsOf(call))
ConfigTargetIs(kind) == IsSet /\ ConfigTarget.status = "ok" /\ ConfigTarget.type.kind = kind

\* str is an integer written with at most nine digits and an optional '-'.
IsIntegerText(str) ==
    LET digits == IF str # <<>> /\ str[1] = "-" THEN Tail(str) ELSE str
    IN digits # <<>> /\ Len(digits) <= 9 /\ AllDigits(digits)

IntegerOfText(str) ==
    IF str[1] = "-" THEN -StrToNat(Tail(str)) ELSE StrToNat(str)

\* C18: a string stored into an enum field: a registered name in any letter case
\* gives the value registered with it; another string that is an integer gives
\* that integer as the underlying value; a string that is neither a name nor
\* starts with a number is refused and the field keeps its value.
EnumFromString ==
    (ConfigTargetIs("enum") /\ is_string(call.value)) =>
        LET str == call.value.s
            map == ConfigTarget.type.enum_map
        IN IF \E i \in 1..Len(map) : IsWord(str, map[i].str)
           THEN ret.ok /\ \E i \in 1..Len(map) :
                              IsWord(str, map[i].str) /\ ConfigTargetNow.val = map[i].val
           ELSE /\ IsIntegerText(str) => (ret.ok /\ ConfigTargetNow.val = IntegerOfText(str))
                /\ (str = <<>> \/ (~isdigit(str[1]) /\ str[1] \notin {" ", "+", "-"})) =>
                       (~ret.ok /\ obj = before)

\* "HIGH" is stored as Priority::HIGH.
EnumFromStringWitness ==
    /\ call = [op |-> "set_field", path |-> f_priority,
               value |-> JStr(<<"H", "I", "G", "H">>)]
    /\ before = ConfigFixture /\ ret.ok /\ obj[5] = 10

\* C19: a number stored into an enum field becomes the underlying value, and a
\* number stored into a duration field becomes the count in the field's own
\* unit; both are always accepted.
NumberIntoConverterType ==
    ((ConfigTargetIs("enum") \/ ConfigTargetIs("duration")) /\ is_number(call.value)) =>
        /\ ret.ok
        /\ call.value.k = "num" => ConfigTargetNow.val = call.value.n

\* 10 stored into the minutes field is ten minutes.
NumberIntoConverterTypeWitness ==
    /\ call = [op |-> "set_field", path |-> f_interval, value |-> JNum(10)]
    /\ before = ConfigFixture /\ ret.ok /\ obj[4] = 10 /\ obj[3] = 30

\* C20: a duration string, with or without surrounding spaces, is the literal
\* times its unit, converted into the unit of the field and only then truncated;
\* without a suffix the literal is in the unit of the field.
DurationFromString ==
    (ConfigTargetIs("duration") /\ is_string(call.value)) =>
        \A pad \in Paddings, lit \in DurationLiterals, unit \in DurationUnits :
            call.value.s = DurationText(pad, lit, unit) =>
                /\ ret.ok
                /\ ConfigTargetNow.val =
                       IF unit.native THEN lit.halves \div 2
                       ELSE (lit.halves * unit.num * ConfigTarget.type.den)
                                \div (2 * unit.den * ConfigTarget.type.num)

\* The unit suffixes a duration string may end with.
ListedUnits == {unit.text : unit \in DurationUnits} \ {<<>>}

\* str without the whitespace around it.
Trimmed(str) == Trim(str, {" ", "\t", "\r", "\n"})

\* The text of str after its leading run of digits, signs and points.
SuffixOf(str) == SubSeq(str, NumericPrefixLen(str) + 1, Len(str))

\* str is empty or blank, starts with no number, or ends a number with text that
\* is no listed unit.
IsInvalidDuration(str) ==
    \/ Trimmed(str) = <<>>
    \/ ~IsNumericChar(Trimmed(str)[1])
    \/ /\ SuffixOf(Trimmed(str)) # <<>>
       /\ \A i \in 1..Len(SuffixOf(Trimmed(str))) : ~isspace(SuffixOf(Trimmed(str))[i])
       /\ SuffixOf(Trimmed(str)) \notin ListedUnits

\* C21: a duration string that is empty or blank, that does not start with a
\* number, or whose suffix is no listed unit is refused, and the duration field
\* keeps its value.
InvalidDurationRefused ==
    (ConfigTargetIs("duration") /\ is_string(call.value)
        /\ IsInvalidDuration(call.value.s)) => (~ret.ok /\ obj = before)

\* "5x" is refused by the seconds field, which stays at 30.
InvalidDurationWitness ==
    /\ call = [op |-> "set_field", path |-> f_timeout, value |-> JStr(<<"5", "x">>)]
    /\ before = ConfigFixture /\ ~ret.ok /\ obj[3] = 30

(***************************************************************************)
(* is_valid_path and get_all_paths on the record types                     *)
(***************************************************************************)
\* struct Person { std::string name; int age; Address address; bool active; };
PathPerson ==
    [kind |-> "struct", names |-> <<f_name, f_age, f_address, f_active>>,
     types |-> <<TString, TInt, Address, TBool>>]

ValidateTypes == RecordTypes \cup {Config, PathPerson}

\* The segments paths are made of: every declared name, a name no type
\* declares, and the first index.
ValidateSegs ==
    {PathPart(n) : n \in UNION {{T.names[i] : i \in 1..Len(T.names)} : T \in ValidateTypes}}
        \cup {PathPart(f_nope), PathPartIndex(0)}

ValidateSegLists ==
    UNION {[1..n -> ValidateSegs] : n \in 1..2}
        \cup {<<PathPart(f_items), PathPartIndex(0), seg>> : seg \in ValidateSegs}

ValidateInputs == {Render(segs) : segs \in ValidateSegLists} \cup Paths \cup DotInputs

InitValidate ==
    /\ obj = DefaultValue(Person) /\ before = obj /\ call = NoCall
    /\ ret = [ok |-> FALSE, val |-> JNull] /\ calls = 0
    /\ input \in ValidateInputs
    /\ pos = 0 /\ st = ParseStart /\ pc = "validate"

\* is_valid_path<T>(input): st holds T and the bool returned.
IsValidPathOf(T) ==
    /\ pc = "validate"
    /\ st' = [type |-> T, valid |-> is_valid_path(T, input)]
    /\ pc' = "validated"
    /\ UNCHANGED <<input, pos>>
    /\ UNCHANGED callVars

\* get_all_paths<T>(): st holds T and the vector returned.
GetAllPaths(T) ==
    /\ pc = "validate"
    /\ st' = [type |-> T, paths |-> get_all_paths(T)]
    /\ pc' = "collected"
    /\ UNCHANGED <<input, pos>>
    /\ UNCHANGED callVars

NextValidate ==
    \/ \E T \in ValidateTypes : IsValidPathOf(T)
    \/ \E T \in ValidateTypes : GetAllPaths(T)

SpecValidate == InitValidate /\ [][NextValidate]_vars

RECURSIVE Resolves(_, _)
\* A segment sequence resolves against the layout of T: a field name on a
\* record type that declares it, an index on a sequence type.
Resolves(T, parts) ==
    IF parts = <<>> THEN TRUE
    ELSE IF Head(parts).has_index
    THEN T.kind = "vector" /\ Resolves(T.elem, Tail(parts))
    ELSE /\ T.kind = "struct"
         /\ \E i \in 1..Len(T.names) :
                T.names[i] = Head(parts).field_name /\ Resolves(T.types[i], Tail(parts))

\* C22: is_valid_path<T>(path) is true exactly when the path has a segment and
\* every segment resolves against the layout of T under the rules of the
\* reader: a name on a record type, an index on a sequence type.
ValidIffResolves ==
    pc = "validated" =>
        (st.valid <=> (parse_path_enhanced(input) # <<>>
                          /\ Resolves(st.type, parse_path_enhanced(input))))

RECURSIVE PreOrderFrom(_, _, _), FieldCount(_)
\* The paths of the fields of T from field i on, each field followed at once by
\* the paths of its own fields when it is a record.
PreOrderFrom(T, i, prefix) ==
    IF i > Len(T.names) THEN <<>>
    ELSE <<FullPath(prefix, T.names[i])>>
            \o (IF T.types[i].kind = "struct"
                THEN PreOrderFrom(T.types[i], 1, FullPath(prefix, T.names[i]))
                ELSE <<>>)
            \o PreOrderFrom(T, i + 1, prefix)

\* The number of fields of T and of the record types nested in it.
FieldCount(T) ==
    IF T.kind # "struct" THEN 0
    ELSE LET n[i \in 0..Len(T.types)] ==
                 IF i = 0 THEN 0 ELSE n[i - 1] + 1 + FieldCount(T.types[i])
         IN n[Len(T.types)]

\* C23: get_all_paths<T>() is the depth-first pre-order list of the field paths
\* of T in declaration order, a sequence or scalar field giving its own path
\* only; it has no duplicates and as many entries as T and its nested records
\* have fields.
AllPathsInPreOrder ==
    pc = "collected" =>
        /\ st.paths = PreOrderFrom(st.type, 1, <<>>)
        /\ \A i, j \in 1..Len(st.paths) : st.paths[i] = st.paths[j] => i = j
        /\ Len(st.paths) = FieldCount(st.type)
        /\ st.type = PathPerson => Len(st.paths) = 7

\* The seven paths of Person, "address.street" right after "address".
AllPathsWitness ==
    /\ pc = "collected" /\ st.type = PathPerson /\ Len(st.paths) = 7
    /\ st.paths[3] = f_address /\ st.paths[4] = Dot(f_address, f_street)
    /\ st.paths[7] = f_active

(***************************************************************************)
(* Parse failures behind the public functions                              *)
(***************************************************************************)
\* The paths above, paths with unbalanced brackets, and the paths of the fields
\* whose coercion parses text.
BoundaryPaths ==
    BadIndexPaths
        \cup { f_items \o <<"[", "0">>, f_items \o <<"]">>, <<"[">>, f_items \o <<"[", "]">>,
               f_items \o <<"[", "4", "2", "9", "4", "9", "6", "7", "2", "9", "6", "]">>,
               Dot(At(f_items, 1), f_value), f_age, f_priority, f_interval, f_name,
               f_nope, <<>> }

\* Texts no number, enum or duration parser accepts, and values they accept.
BoundaryValues ==
    { JStr(<<"X">>), JStr(<<>>), JStr(<<"5", "x">>), JStr(<<"H", "I", "G", "H">>),
      JStr(<<"2", "m">>), JNum(5), JNull }

BoundaryCalls ==
    (BoundaryPaths \X BoundaryValues)
        \cup ({f_age, f_priority, Dot(At(f_items, 1), f_value)} \X {JStr(TwentyNines)})

\* The calls made on one record.
MaxBoundaryCalls == 1

InitBoundary ==
    /\ obj \in {DefaultValue(Person), Fixture} /\ before = obj /\ call = NoCall
    /\ ret = [ok |-> FALSE, val |-> JNull] /\ calls = 0
    /\ input = <<>> /\ pos = 0 /\ st = ParseStart /\ pc = "idle"

NextBoundary ==
    \/ Return
    \/ \E p \in BoundaryPaths : calls < MaxBoundaryCalls /\ GetFieldEnhanced(p)
    \/ \E p \in BoundaryPaths : calls < MaxBoundaryCalls /\ GetField(p)
    \/ \E c \in BoundaryCalls : calls < MaxBoundaryCalls /\ SetFieldEnhanced(c[1], c[2])
    \/ \E c \in BoundaryCalls : calls < MaxBoundaryCalls /\ SetField(c[1], c[2])
    \/ \E p \in BoundaryPaths : calls < MaxBoundaryCalls /\ IsValidPath(p)

SpecBoundary == InitBoundary /\ [][NextBoundary]_vars

\* The texts the parser of a field of the given kind refuses.
Unparsable(kind) ==
    CASE kind = "int" -> {<<"X">>, <<>>, TwentyNines}
      [] kind = "enum" -> {<<"X">>, <<>>, TwentyNines}
      [] kind = "duration" -> {<<"X">>, <<>>, <<"5", "x">>}
      [] OTHER -> {}

\* The last call is a set of a text that the parser of its target refuses.
CoercionParseFails ==
    /\ IsSet /\ Target.status = "ok" /\ is_string(call.value)
    /\ call.value.s \in Unparsable(Target.type.kind)

\* The last call has array support and its path holds index text that std::stoull
\* refuses.
IndexParseFails == Enhanced(call) /\ call.path \in BadIndexPaths

\* C24 as stated: every call returns a bool or an optional, and a parse failure
\* inside index, number, enum or duration parsing makes the call return false
\* or an empty optional.
ParseFailuresBecomeFailure ==
    call.op # "none" =>
        /\ ret.ok \in BOOLEAN
        /\ CoercionParseFails => (~ret.ok /\ obj = before)
        /\ IndexParseFails => ~ret.ok

\* C24, amended: every call returns a bool or an optional; a parse failure
\* inside number, enum or duration parsing makes set return false and leaves
\* the record unchanged; a parse failure inside index parsing is swallowed by the
\* parser, which drops the index segment, so that the call acts on the segments
\* that remain.
NoFailureEscapes ==
    call.op # "none" =>
        /\ ret.ok \in BOOLEAN
        /\ CoercionParseFails => (~ret.ok /\ obj = before)
        /\ IndexParseFails =>
               /\ \A i \in 1..Len(PartsOf(call)) : ~PartsOf(call)[i].has_index
               /\ IsGet => ret.ok

\* "X" is refused by the enum field of a populated record.
NoFailureEscapesWitness ==
    /\ call = [op |-> "set_field_enhanced", path |-> f_priority, value |-> JStr(<<"X">>)]
    /\ before = Fixture /\ ~ret.ok /\ obj = Fixture

\* C25: for a path in dot notation, is_valid_path<T>(p) is true exactly when
\* get_field(r, p) returns a value, whatever the record r holds.
ValidIffGettable ==
    /\ call.op = "get_field" => (ret.ok <=> is_valid_path(Person, call.path))
    /\ call.op = "is_valid_path" => (ret.ok <=> get_field(Person, obj, call.path).has)

\* "address.street" is valid, asked of a record an earlier set has changed.
ValidIffGettableWitness ==
    /\ call = [op |-> "is_valid_path", path |-> Dot(f_address, f_street), value |-> JNull]
    /\ ret.ok /\ calls = 2 /\ obj \notin {DefaultValue(Person), Fixture}

\* The segments of str joined by single dots.
Canonical(str) == JoinStrs(RunsFrom(str, 1), <<".">>)

\* C26: every path get_all_paths<T>() returns is accepted by is_valid_path<T>,
\* and every path in dot notation that is_valid_path<T> accepts is, with its
\* segments joined by single dots, one of the paths get_all_paths<T>() returns.
DiscoveryAgreesWithValidation ==
    /\ pc = "collected" =>
           \A i \in 1..Len(st.paths) : is_valid_path(st.type, st.paths[i])
    /\ (pc = "validated" /\ st.valid /\ ~HasBracket(input)) =>
           \E i \in 1..Len(get_all_paths(st.type)) :
               get_all_paths(st.type)[i] = Canonical(input)

\* ".address.city." is accepted for Person, and "address.city" is discovered.
DiscoveryAgreesWitness ==
    /\ pc = "validated" /\ st.type = PathPerson /\ st.valid
    /\ input = <<".">> \o Dot(f_address, f_city) \o <<".">>
    /\ get_all_paths(PathPerson)[5] = Dot(f_address, f_city)

RECURSIVE Navigate(_, _)
\* The dynamic value reached from j by the segments q: the member of an object
\* for a field name, the element of an array for an index.
Navigate(j, q) ==
    IF q = <<>> THEN Some(j)
    ELSE IF Head(q).has_index
    THEN IF j.k = "arr" /\ Head(q).array_index >= 0 /\ Head(q).array_index < Len(j.a)
         THEN Navigate(j.a[Head(q).array_index + 1], Tail(q))
         ELSE nullopt
    ELSE IF j.k = "obj" /\ Head(q).field_name \in DOMAIN j.o
         THEN Navigate(j.o[Head(q).field_name], Tail(q))
         ELSE nullopt

\* What the last call returned is what projecting gp, the result for a prefix
\* of its path, by the remaining segments q gives.
ComposesAt(gp, q) ==
    /\ ret.ok <=> (gp.has /\ Navigate(gp.val, q).has)
    /\ ret.ok => ret.val = Navigate(gp.val, q).val

\* C27: get(r, p followed by q) has a value exactly when get(r, p) has one and q
\* leads somewhere inside that dynamic value, and then it is the value q leads
\* to.
GetComposes ==
    call.op = "get_field_enhanced" =>
        \A n \in 1..(Len(PartsOf(call)) - 1) :
            ComposesAt(get_field_enhanced_recursive(Person, obj,
                                                    SubSeq(PartsOf(call), 1, n), 0),
                       SubSeq(PartsOf(call), n + 1, Len(PartsOf(call))))

\* The value of the second item is read directly, on a record an earlier call
\* has changed.
GetComposesWitness ==
    /\ call = [op |-> "get_field_enhanced", path |-> Dot(At(f_items, 1), f_value),
               value |-> JNull]
    /\ ret.ok /\ calls = 2 /\ obj # Fixture

(***************************************************************************)
(* Two set calls in a row on one record                                    *)
(***************************************************************************)
CommutePaths ==
    { f_name, f_age, f_priority, f_interval, f_address, f_items, f_nope,
      Dot(f_address, f_street), At(f_items, 1),
      Dot(At(f_items, 0), f_name), Dot(At(f_items, 1), f_name),
      Dot(At(f_items, 1), f_value), Dot(At(f_items, 3), f_name) }

CommuteValues == {JStr(<<"X">>), JNum(5), JNull, ItemObject}

\* The set calls the caller chooses from, with and without array support.
CommuteCalls ==
    {[op |-> "set_field_enhanced", path |-> p, value |-> v] :
        p \in CommutePaths, v \in CommuteValues}
    \cup {[op |-> "set_field", path |-> p, value |-> v] :
            p \in CommutePaths \cap DotPaths, v \in CommuteValues \ {ItemObject}}

\* The call c made on the record r.
ApplySet(c, r) ==
    IF c.op = "set_field_enhanced" THEN set_field_enhanced(Person, r, c.path, c.value)
    ELSE set_field(Person, r, c.path, c.value)

\* The call c made on the record that an earlier call, of outcome r1, left.
ThenSet(r1, c) ==
    [rets |-> <<r1.ret, ApplySet(c, r1.obj).ret>>, mid |-> r1.obj,
     obj |-> ApplySet(c, r1.obj).obj]

\* The calls ca and then cb made on the record r: what they returned, the record
\* between them and the record after them.
TwoSets(r, ca, cb) == ThenSet(ApplySet(ca, r), cb)

InitCommute ==
    /\ obj \in {DefaultValue(Person), Fixture} /\ before = obj /\ call = NoCall
    /\ ret = [ok |-> FALSE, val |-> JNull] /\ calls = 0
    /\ input = <<>> /\ pos = 0 /\ pc = "commute"
    /\ st \in [first : CommuteCalls, second : CommuteCalls]

\* The caller has run the two calls: st holds their outcome.
Ran(first, second, out) ==
    /\ st' = [first |-> first, second |-> second, rets |-> out.rets, mid |-> out.mid]
    /\ obj' = out.obj /\ before' = obj /\ calls' = 2
    /\ UNCHANGED <<call, ret, input, pos>>

\* set(obj, st.first) followed by set(obj, st.second).
SetInOrder ==
    /\ pc = "commute" /\ pc' = "in_order"
    /\ Ran(st.first, st.second, TwoSets(obj, st.first, st.second))

\* set(obj, st.first) made twice.
SetRepeated ==
    /\ pc = "commute" /\ pc' = "repeated"
    /\ Ran(st.first, st.first, TwoSets(obj, st.first, st.first))

NextCommute == SetInOrder \/ SetRepeated

SpecCommute == InitCommute /\ [][NextCommute]_vars

\* Neither parsed path is a prefix of the other.
Disjoint(c1, c2) ==
    /\ ~IsPrefix(PartsOf(c1), PartsOf(c2))
    /\ ~IsPrefix(PartsOf(c2), PartsOf(c1))

\* The outcome of the two calls made in the other order agrees with st and obj.
AgreesWithReversed(out) ==
    /\ st.rets = <<out.rets[2], out.rets[1]>>
    /\ obj = out.obj

\* C28: two set calls with disjoint parsed paths give the same return values and
\* the same final record in either order; a set call repeated at once returns
\* what it returned the first time and leaves the record as the first call left
\* it.
DisjointSetsCommute ==
    /\ (pc = "in_order" /\ Disjoint(st.first, st.second)) =>
           AgreesWithReversed(TwoSets(before, st.second, st.first))
    /\ pc = "repeated" => (st.rets[1] = st.rets[2] /\ obj = st.mid)

\* The names of two different items have been set, one call after the other.
DisjointSetsWitness ==
    /\ pc = "in_order" /\ before = Fixture /\ st.rets = <<TRUE, TRUE>>
    /\ st.first.path = Dot(At(f_items, 0), f_name) /\ st.first.value = JStr(<<"X">>)
    /\ st.second.path = Dot(At(f_items, 1), f_name)
    /\ st.second.value = JNum(5)
    /\ obj # st.mid /\ st.mid # before

\* The code has a canonical name in the map of the enum type T.
IsRegistered(T, code) == \E i \in 1..Len(T.enum_map) : T.enum_map[i].val = code

\* Both enum fields of the Config c hold registered values.
EnumsRegistered(c) == IsRegistered(LogLevel, c[2]) /\ IsRegistered(Priority, c[5])

\* C29: once the enum fields of a record hold registered values they do so after
\* every set call, whatever its path and value.
EnumsStayRegistered == [][EnumsRegistered(obj) => EnumsRegistered(obj')]_vars

RECURSIVE OutsideFrom(_, _), FieldNameChars(_)
\* Position i of str lies inside brackets: the last bracket before it is a '['.
InBrackets(str, i) ==
    \E j \in 1..(i - 1) : str[j] = "[" /\ \A k \in (j + 1)..(i - 1) : str[k] # "]"

\* The characters of str from position i on that lie outside brackets and are
\* not '.', '[' or ']'.
OutsideFrom(str, i) ==
    IF i > Len(str) THEN <<>>
    ELSE IF str[i] \notin {".", "[", "]"} /\ ~InBrackets(str, i)
    THEN <<str[i]>> \o OutsideFrom(str, i + 1)
    ELSE OutsideFrom(str, i + 1)

\* The field names of the segments, one after the other.
FieldNameChars(parts) ==
    IF parts = <<>> THEN <<>> ELSE Head(parts).field_name \o FieldNameChars(Tail(parts))

\* C30: the segments parse_path_enhanced returns are each a field name or an
\* index and never both; a field name is not empty and holds no '.', '[' or
\* ']'; and the field names together are the characters of the input that lie
\* outside brackets and are none of these three.
ParseIsWellFormed ==
    pc = "done" =>
        /\ \A i \in 1..Len(st.parts) :
               /\ st.parts[i].has_index <=> st.parts[i].field_name = <<>>
               /\ \A k \in 1..Len(st.parts[i].field_name) :
                      st.parts[i].field_name[k] \notin {".", "[", "]"}
        /\ FieldNameChars(st.parts) = OutsideFrom(input, 1)

\* "a[1b": the bracket is never closed and only "a" is kept; the loop has read
\* the whole input.
ParseIsWellFormedWitness ==
    /\ pc = "done" /\ input = <<"a", "[", "1", "b">> /\ pos = Len(input)
    /\ st.parts = <<PathPart(<<"a">>)>>

====
